---- MODULE Spec2Model ----
(***************************************************************************)
(* Budget pipeline of the Pai backend: TransactionProcessor (deduplicate,  *)
(* single-pass transfer detection, categorisation), MultiBankDetector      *)
(* (cross-account transfer detection) and BudgetEngine.calculate_summary.  *)
(*                                                                         *)
(* Representation                                                          *)
(*   time        minutes since 2025-01-01T00:00Z (an aware UTC instant)    *)
(*   amount      Decimal, in thousandths of a pound (negative = outflow)   *)
(*   text        sequence of one-character strings                         *)
(*   None        NULL for category / confidence; a None merchant is the    *)
(*               empty text (the code only ever tests its truthiness)      *)
(***************************************************************************)
EXTENDS Integers, Sequences, FiniteSets, TLC

VARIABLES
    txs,            \* the NormalizedTransaction objects of the current batch
    recent_hashes,  \* TransactionProcessor.recent_hashes: hash -> posted_at
    now,            \* the wall clock read by utc_now()
    rules,          \* budget_rules rows of the user, in priority order
    categories,     \* budget_categories rows of the user, in display order
    last_period,    \* the period argument of the last calculate_summary
    summary,        \* the last BudgetSummaryResponse (NoSummary before any)
    lastOp,         \* the operation that produced this state
    prevTxs,        \* history: the batch as lastOp found it
    prevHashes,     \* history: recent_hashes as lastOp found it
    delivered,      \* history: every hash input handed to deduplicate so far
    prevDelivered,  \* history: delivered as it was before lastOp
    pairs,          \* history: the index pairs the last detector paired
    detected,       \* the list MultiBankDetector.detect_transfers returned last
    feed,           \* the transactions the provider can deliver in this run
    own_hashes,     \* history: per user, the recent_hashes of a processor of their own
    alone,          \* history: the last batch as that processor would return it
    USER_LOCKS,     \* main.USER_LOCKS: per user, whether the Lock is held
    TRANSACTION_CACHE,  \* main.TRANSACTION_CACHE: per user, the cached entry
    pc,             \* per budget_refresh request, where the coroutine stands
    calls,          \* per account of _fetch_all_accounts so far: the provider's
                    \* answers to the attempts of its fetch, and how the call ended
    failed_accounts,    \* the failed_accounts list of the refresh
    earlier         \* history: the raw batch, flags and summary of the run of
                    \* the pipeline before the last

vars == <<txs, recent_hashes, now, rules, categories, last_period, summary, lastOp, prevTxs, prevHashes,
          delivered, prevDelivered, pairs, detected, feed, own_hashes, alone,
          USER_LOCKS, TRANSACTION_CACHE, pc, calls, failed_accounts, earlier>>

\* what the operations on one batch of one user leave alone
elsewhere ==
    <<own_hashes, alone, USER_LOCKS, TRANSACTION_CACHE, pc, calls, failed_accounts, earlier>>

NULL == "None"

-----------------------------------------------------------------------------
(* Bounds of the model *)

MaxBatch == 2       \* transactions per batch
MaxTicks == 3       \* clock advances
MaxTransferBatch == 3   \* transactions per batch handed to the transfer detectors
MaxLedger == 3      \* transactions handed to calculate_summary or apply_rules
MaxRules == 2       \* budget_rules rows of the user
MaxRequests == 3    \* budget_refresh requests of a run
MaxAccounts == 3    \* bank accounts of the user

-----------------------------------------------------------------------------
(* Small helpers *)

Abs(x) == IF x < 0 THEN 0 - x ELSE x

Min(a, b) == IF a < b THEN a ELSE b

Sign(x) == IF x < 0 THEN 0 - 1 ELSE IF x > 0 THEN 1 ELSE 0

Indices(s) == 1..Len(s)

\* s[:n]
Take(s, n) == SubSeq(s, 1, Min(n, Len(s)))

\* every sequence over S of length 1..n
SeqsUpTo(S, n) == UNION {[1..k -> S] : k \in 1..n}

Repeat(c, n) == [i \in 1..n |-> c]

\* sub in s
Contains(sub, s) ==
    \E k \in 0..(Len(s) - Len(sub)) : \A m \in 1..Len(sub) : s[k + m] = sub[m]

LowerLetters == <<"a","b","c","d","e","f","g","h","i","j","k","l","m","n","o","p","q","r","s","t","u","v","w","x","y","z">>
UpperLetters == <<"A","B","C","D","E","F","G","H","I","J","K","L","M","N","O","P","Q","R","S","T","U","V","W","X","Y","Z">>

\* str.upper() and str.lower(), character by character
UpperTable ==
    [c \in {LowerLetters[k] : k \in 1..26} |->
        UpperLetters[CHOOSE k \in 1..26 : LowerLetters[k] = c]]

LowerTable ==
    [c \in {UpperLetters[k] : k \in 1..26} |->
        LowerLetters[CHOOSE k \in 1..26 : UpperLetters[k] = c]]

UpperChar(c) == IF c \in DOMAIN UpperTable THEN UpperTable[c] ELSE c

LowerChar(c) == IF c \in DOMAIN LowerTable THEN LowerTable[c] ELSE c

upper(s) == [k \in 1..Len(s) |-> UpperChar(s[k])]
lower(s) == [k \in 1..Len(s) |-> LowerChar(s[k])]

\* the first element of a non-empty set in the strict order lt
MinBy(S, lt(_, _)) == CHOOSE x \in S : \A y \in S : y = x \/ lt(x, y)

-----------------------------------------------------------------------------
(* Time: datetime, timedelta *)

Hours(n) == n * 60
Days(n) == n * 24 * 60

\* timedelta.total_seconds()
total_seconds(delta) == delta * 60

\* datetime.date(): the calendar day (days since 2025-01-01)
DateOf(t) == t \div Days(1)

\* cumulative day count at the start of each month of 2025
MonthStart == <<0, 31, 59, 90, 120, 151, 181, 212, 243, 273, 304, 334>>

YearOf(t) == 2025 + (DateOf(t) \div 365)

DayOfYear(t) == DateOf(t) % 365

MonthOf(t) ==
    LET d == DayOfYear(t)
    IN  CHOOSE m \in 1..12 :
            /\ MonthStart[m] <= d
            /\ (m = 12 \/ d < MonthStart[m + 1])

\* datetime.isoformat(): date, hour and minute of the UTC instant
isoformat(t) ==
    <<YearOf(t), MonthOf(t), DayOfYear(t) - MonthStart[MonthOf(t)] + 1,
      (t % Days(1)) \div Hours(1), t % Hours(1)>>

-----------------------------------------------------------------------------
(* Decimal amounts, in thousandths *)

Pounds(p, m) == p * 1000 + m

\* str(Decimal): sign, whole part, fractional digits
DecimalStr(a) == <<a < 0, Abs(a) \div 1000, Abs(a) % 1000>>

-----------------------------------------------------------------------------
(* NormalizedTransaction *)

\* a freshly constructed NormalizedTransaction (normalize_transaction, and the
\* constructor calls of the tests): flags false, no category
NewTx(i, f) ==
    [id |-> i, account_id |-> f.account_id, posted_at |-> f.posted_at,
     amount |-> f.amount, description |-> f.description, merchant |-> f.merchant,
     is_transfer |-> FALSE, is_duplicate |-> FALSE,
     category |-> NULL, category_confidence |-> NULL]

Fields(tx) ==
    [account_id |-> tx.account_id, posted_at |-> tx.posted_at, amount |-> tx.amount,
     description |-> tx.description, merchant |-> tx.merchant]

-----------------------------------------------------------------------------
(* TransactionProcessor.deduplicate_transactions *)

DescPrefixLen == 50
DedupWindowHours == 72
SecondsPerHour == 3600
CleanupDays == 7

\* mutant: the hash covers the timestamp to the hour
TransactionHashToTheHour(tx) ==
    <<tx.account_id, tx.posted_at \div 60, DecimalStr(tx.amount),
      Take(tx.description, DescPrefixLen)>>

\* mutant: the hash covers the calendar date, not the timestamp
TransactionHashDateOnly(tx) ==
    <<tx.account_id, DateOf(tx.posted_at), DecimalStr(tx.amount),
      Take(tx.description, DescPrefixLen)>>

\* mutant: the hash leaves the posting time out altogether
TransactionHashNoTime(tx) ==
    <<tx.account_id, DecimalStr(tx.amount), Take(tx.description, DescPrefixLen)>>

\* mutant: the hash covers the whole description, not its first 50 characters
TransactionHashFullDescription(tx) ==
    <<tx.account_id, isoformat(tx.posted_at), DecimalStr(tx.amount), tx.description>>

\* the text that is digested; SHA-256 is taken to be injective on it
_transaction_hash(tx) ==
    <<tx.account_id, isoformat(tx.posted_at), DecimalStr(tx.amount),
      Take(tx.description, DescPrefixLen)>>

\* tx_hash in self.recent_hashes and time_diff < 72 * 3600
SeenInWindow(rh, h, tx) ==
    /\ h \in DOMAIN rh
    /\ Abs(total_seconds(tx.posted_at - rh[h])) < DedupWindowHours * SecondsPerHour

\* mutant: the flag is assigned the outcome of the test, true or false
DedupStepAssigning(ts, rh, i) ==
    LET tx == ts[i]
        h  == _transaction_hash(tx)
    IN  IF SeenInWindow(rh, h, tx)
        THEN [txs |-> [ts EXCEPT ![i].is_duplicate = TRUE], recent |-> rh]
        ELSE [txs |-> [ts EXCEPT ![i].is_duplicate = FALSE],
              recent |-> (h :> tx.posted_at) @@ rh]

\* one iteration of the loop over the batch
DedupStep(ts, rh, i) ==
    LET tx == ts[i]
        h  == _transaction_hash(tx)
    IN  IF SeenInWindow(rh, h, tx)
        THEN [txs |-> [ts EXCEPT ![i].is_duplicate = TRUE], recent |-> rh]
        ELSE [txs |-> ts, recent |-> (h :> tx.posted_at) @@ rh]

RECURSIVE DedupLoop(_, _, _)
DedupLoop(ts, rh, i) ==
    IF i > Len(ts) THEN [txs |-> ts, recent |-> rh]
    ELSE LET r == DedupStep(ts, rh, i)
         IN  DedupLoop(r.txs, r.recent, i + 1)

\* mutant: the comparison of the purge is turned around
CleanupInverted(rh, clock) ==
    LET cutoff == clock - Days(CleanupDays)
        keep   == {h \in DOMAIN rh : rh[h] < cutoff}
    IN  [h \in keep |-> rh[h]]

\* the purge of hashes older than 7 days
Cleanup(rh, clock) ==
    LET cutoff == clock - Days(CleanupDays)
        keep   == {h \in DOMAIN rh : rh[h] > cutoff}
    IN  [h \in keep |-> rh[h]]

deduplicate_transactions(ts, rh, clock) ==
    LET r == DedupLoop(ts, rh, 1)
    IN  [txs |-> r.txs, recent |-> Cleanup(r.recent, clock)]

-----------------------------------------------------------------------------
(* TransactionProcessor.detect_transfers: date + amount buckets *)

\* Decimal.quantize(Decimal("0.01")) of a non-negative amount, in pence
\* (the default context rounds half to even)
_round_amount(a) ==
    LET q == a \div 10
        r == a % 10
    IN  IF r > 5 \/ (r = 5 /\ q % 2 = 1) THEN q + 1 ELSE q

BucketKey(tx) == <<DateOf(tx.posted_at), _round_amount(Abs(tx.amount))>>

IndexSeq(ts) == [i \in Indices(ts) |-> i]

\* positive = [t for t in group if t.amount > 0], as indices in arrival order
Positive(ts, key) ==
    SelectSeq(IndexSeq(ts), LAMBDA i : BucketKey(ts[i]) = key /\ ts[i].amount > 0)

Negative(ts, key) ==
    SelectSeq(IndexSeq(ts), LAMBDA i : BucketKey(ts[i]) = key /\ ts[i].amount < 0)

\* mutant: every positive of the bucket is compared with every negative
AllPairs(pos, neg) ==
    {<<pos[k], neg[m]>> : k \in Indices(pos), m \in Indices(neg)}

\* zip(positive, negative)
ZipPairs(pos, neg) ==
    {<<pos[k], neg[k]>> : k \in 1..Min(Len(pos), Len(neg))}

\* the pairs of one bucket whose account_id differs
BucketTransfers(ts, key) ==
    {pr \in ZipPairs(Positive(ts, key), Negative(ts, key)) :
        ts[pr[1]].account_id # ts[pr[2]].account_id}

SinglePassPairs(ts) ==
    UNION {BucketTransfers(ts, key) : key \in {BucketKey(ts[i]) : i \in Indices(ts)}}

\* pos_tx.is_transfer = True; neg_tx.is_transfer = True
FlagPair(ts, pr) ==
    [ts EXCEPT ![pr[1]].is_transfer = TRUE, ![pr[2]].is_transfer = TRUE]

RECURSIVE FlagPairs(_, _)
FlagPairs(ts, prs) ==
    IF prs = {} THEN ts
    ELSE LET pr == CHOOSE x \in prs : TRUE
         IN  FlagPairs(FlagPair(ts, pr), prs \ {pr})

detect_transfers(ts) == FlagPairs(ts, SinglePassPairs(ts))

-----------------------------------------------------------------------------
(* MultiBankDetector.detect_transfers *)

MerchantKeywords ==
    <<<<"P","A","Y","M","E","N","T"," ","T","O">>,
      <<"P","A","Y","M","E","N","T"," ","F","R","O","M">>,
      <<"T","R","A","N","S","F","E","R"," ","T","O">>,
      <<"T","R","A","N","S","F","E","R"," ","F","R","O","M">>,
      <<"D","D"," ">>,
      <<"D","I","R","E","C","T"," ","D","E","B","I","T">>,
      <<"S","T","A","N","D","I","N","G"," ","O","R","D","E","R">>,
      <<"F","A","S","T","E","R"," ","P","A","Y","M","E","N","T">>>>

_contains_merchant_name(description) ==
    LET description_upper == upper(description)
    IN  \E k \in Indices(MerchantKeywords) :
            Contains(MerchantKeywords[k], description_upper)

\* timedelta.days: whole days, rounded towards minus infinity
timedelta_days(delta) == delta \div Days(1)

AmountTolerance == 10       \* Decimal('0.01'), in thousandths
MaxTransferDays == 3

\* the product of the amounts is only tested for its sign
_is_transfer_candidate(tx1, tx2) ==
    /\ ~(Sign(tx1.amount) * Sign(tx2.amount) >= 0)
    /\ ~(Abs(Abs(tx1.amount) - Abs(tx2.amount)) > AmountTolerance)
    /\ ~(Abs(timedelta_days(tx1.posted_at - tx2.posted_at)) > MaxTransferDays)
    /\ ~(_contains_merchant_name(tx1.description)
            \/ _contains_merchant_name(tx2.description))
    /\ ~(tx1.is_duplicate \/ tx2.is_duplicate)

\* account_ids = list(account_transactions.keys()): an account is ranked by
\* the position of its first transaction
AccountRank(ts, i) ==
    CHOOSE k \in Indices(ts) :
        /\ ts[k].account_id = ts[i].account_id
        /\ \A m \in 1..(k - 1) : ts[m].account_id # ts[i].account_id

\* the (source, destination) pairs the nested loops visit
CrossPairs(ts) ==
    {pr \in Indices(ts) \X Indices(ts) :
        AccountRank(ts, pr[1]) < AccountRank(ts, pr[2])}

\* ... and the order they are visited in
VisitedBefore(ts, a, b) ==
    LET ka == <<AccountRank(ts, a[1]), AccountRank(ts, a[2]), a[1], a[2]>>
        kb == <<AccountRank(ts, b[1]), AccountRank(ts, b[2]), b[1], b[2]>>
    IN  \E n \in 1..4 : ka[n] < kb[n] /\ \A m \in 1..(n - 1) : ka[m] = kb[m]

\* pair_key = tuple(sorted([source_tx.id, dest_tx.id]))
PairKey(ts, pr) ==
    IF ts[pr[1]].id <= ts[pr[2]].id
    THEN <<ts[pr[1]].id, ts[pr[2]].id>>
    ELSE <<ts[pr[2]].id, ts[pr[1]].id>>

TransferData(ts, pr) ==
    [source_account_id |-> ts[pr[1]].account_id,
     destination_account_id |-> ts[pr[2]].account_id,
     relationship_type |-> "transfer",
     confirmed_by_user |-> FALSE]

\* mutant: only the source transaction is marked
MarkSourceOnly(ts, pr) == [ts EXCEPT ![pr[1]].is_transfer = TRUE]

\* source_tx.is_transfer = True; dest_tx.is_transfer = True
MarkTransfer(ts, pr) ==
    [ts EXCEPT ![pr[1]].is_transfer = TRUE, ![pr[2]].is_transfer = TRUE]

\* the body of the innermost loop, for one (source, destination) pair
MultiBankStep(st, pr) ==
    IF PairKey(st.txs, pr) \in st.processed
    THEN st
    ELSE IF _is_transfer_candidate(st.txs[pr[1]], st.txs[pr[2]])
         THEN [txs |-> MarkTransfer(st.txs, pr),
               processed |-> st.processed \cup {PairKey(st.txs, pr)},
               found |-> Append(st.found, TransferData(st.txs, pr)),
               paired |-> st.paired \cup {pr}]
         ELSE [st EXCEPT !.processed = @ \cup {PairKey(st.txs, pr)}]

RECURSIVE MultiBankLoop(_, _)
MultiBankLoop(st, todo) ==
    IF todo = {} THEN st
    ELSE LET pr == MinBy(todo, LAMBDA a, b : VisitedBefore(st.txs, a, b))
         IN  MultiBankLoop(MultiBankStep(st, pr), todo \ {pr})

\* the loops over the accounts and their transactions
MultiBankCompare(ts) ==
    MultiBankLoop([txs |-> ts, processed |-> {}, found |-> <<>>, paired |-> {}],
                  CrossPairs(ts))

\* insert_ok: whether storing the detected transfers succeeds; when it raises,
\* the except branch returns [] after the transactions were marked
multibank_returned(found, insert_ok) ==
    IF found = <<>> \/ insert_ok THEN found ELSE <<>>

-----------------------------------------------------------------------------
(* MultiBankDetector.detect_duplicate_subscriptions *)

\* str.strip(): without the blanks at either end
strip(s) ==
    LET ks == {k \in Indices(s) : s[k] # " "}
    IN  IF ks = {} THEN <<>>
        ELSE SubSeq(s, CHOOSE k \in ks : \A m \in ks : k <= m,
                       CHOOSE k \in ks : \A m \in ks : k >= m)

startswith(s, prefix) ==
    Len(prefix) <= Len(s) /\ SubSeq(s, 1, Len(prefix)) = prefix

endswith(s, suffix) ==
    Len(suffix) <= Len(s) /\ SubSeq(s, Len(s) - Len(suffix) + 1, Len(s)) = suffix

prefixes_to_remove ==
    <<<<"P","A","Y","M","E","N","T"," ","T","O"," ">>,
      <<"P","A","Y","M","E","N","T"," ","F","R","O","M"," ">>,
      <<"D","D"," ">>,
      <<"D","I","R","E","C","T"," ","D","E","B","I","T"," ">>,
      <<"S","T","A","N","D","I","N","G"," ","O","R","D","E","R"," ">>,
      <<"F","A","S","T","E","R"," ","P","A","Y","M","E","N","T"," ">>,
      <<"T","R","A","N","S","F","E","R"," ","T","O"," ">>>>

suffixes_to_remove ==
    <<<<" ","L","T","D">>,
      <<" ","L","I","M","I","T","E","D">>,
      <<" ","P","L","C">>,
      <<" ","I","N","C">>,
      <<" ","C","O","R","P">>,
      <<" ","C","O","R","P","O","R","A","T","I","O","N">>>>

RECURSIVE RemovePrefixes(_, _)
\* the loop over prefixes_to_remove, from the k-th prefix on
RemovePrefixes(s, k) ==
    IF k > Len(prefixes_to_remove) THEN s
    ELSE RemovePrefixes(IF startswith(s, prefixes_to_remove[k])
                        THEN SubSeq(s, Len(prefixes_to_remove[k]) + 1, Len(s))
                        ELSE s,
                        k + 1)

RECURSIVE RemoveSuffixes(_, _)
\* the loop over suffixes_to_remove, from the k-th suffix on
RemoveSuffixes(s, k) ==
    IF k > Len(suffixes_to_remove) THEN s
    ELSE RemoveSuffixes(IF endswith(s, suffixes_to_remove[k])
                        THEN SubSeq(s, 1, Len(s) - Len(suffixes_to_remove[k]))
                        ELSE s,
                        k + 1)

_normalize_merchant_name(merchant) ==
    IF merchant = <<>> THEN <<>>
    ELSE strip(RemoveSuffixes(RemovePrefixes(strip(upper(merchant)), 1), 1))

MaxDuplicateDays == 7

\* mutant: the merchants are compared by their normalized names
IsDuplicateCandidateNormalized(tx1, tx2) ==
    /\ _normalize_merchant_name(tx1.merchant) = _normalize_merchant_name(tx2.merchant)
    /\ LET amount_diff == Abs(tx1.amount - tx2.amount)
           twice_avg   == Abs(tx1.amount) + Abs(tx2.amount)
       IN  ~(twice_avg > 0 /\ 20 * amount_diff > twice_avg)
    /\ ~(Abs(timedelta_days(tx1.posted_at - tx2.posted_at)) > MaxDuplicateDays)

\* amount_diff / avg_amount > 0.1 in integers: avg_amount is half of
\* twice_avg, and the double 0.1 lies so little above one tenth that no
\* quotient of two amounts falls in between
_is_duplicate_candidate(tx1, tx2) ==
    /\ ~(tx1.merchant # tx2.merchant)
    /\ LET amount_diff == Abs(tx1.amount - tx2.amount)
           twice_avg   == Abs(tx1.amount) + Abs(tx2.amount)
       IN  ~(twice_avg > 0 /\ 20 * amount_diff > twice_avg)
    /\ ~(Abs(timedelta_days(tx1.posted_at - tx2.posted_at)) > MaxDuplicateDays)

\* the score as a fraction: 0.4 for the merchant, 0.3 times the amount
\* similarity, 0.3 times the date proximity, at most 1; the code takes the
\* date term through a double
_calculate_similarity_score(tx1, tx2) ==
    LET amount_diff == Abs(tx1.amount - tx2.amount)
        twice_avg   == Abs(tx1.amount) + Abs(tx2.amount)
        date_diff   == Abs(timedelta_days(tx1.posted_at - tx2.posted_at))
        s           == IF twice_avg > 0 THEN twice_avg ELSE 1
        merchant    == IF tx1.merchant = tx2.merchant THEN 28 * s ELSE 0
        amount      == IF twice_avg > 0 /\ twice_avg > 2 * amount_diff
                       THEN 21 * (twice_avg - 2 * amount_diff) ELSE 0
        date        == IF date_diff < 7 THEN 3 * s * (7 - date_diff) ELSE 0
    IN  [num |-> Min(merchant + amount + date, 70 * s), den |-> 70 * s]

\* hashlib.md5 of account, amount, timestamp and merchant, taken as injective
_create_transaction_hash(tx) ==
    <<tx.account_id, DecimalStr(tx.amount), isoformat(tx.posted_at), tx.merchant>>

\* if tx.merchant and not tx.is_transfer
Grouped(tx) == tx.merchant # <<>> /\ ~tx.is_transfer

SameMerchantGroup(a, b) ==
    /\ Grouped(a) /\ Grouped(b)
    /\ _normalize_merchant_name(a.merchant) = _normalize_merchant_name(b.merchant)

\* merchant_groups in insertion order: a group is ranked by its first transaction
GroupRank(ts, i) ==
    CHOOSE k \in Indices(ts) :
        /\ SameMerchantGroup(ts[k], ts[i])
        /\ \A m \in 1..(k - 1) : ~SameMerchantGroup(ts[m], ts[i])

\* account_groups of a merchant group, in insertion order
GroupAccountRank(ts, i) ==
    CHOOSE k \in Indices(ts) :
        /\ SameMerchantGroup(ts[k], ts[i]) /\ ts[k].account_id = ts[i].account_id
        /\ \A m \in 1..(k - 1) :
              ~(SameMerchantGroup(ts[m], ts[i]) /\ ts[m].account_id = ts[i].account_id)

\* the (tx1, tx2) pairs the loops compare
DuplicatePairs(ts) ==
    {pr \in Indices(ts) \X Indices(ts) :
        /\ SameMerchantGroup(ts[pr[1]], ts[pr[2]])
        /\ GroupAccountRank(ts, pr[1]) < GroupAccountRank(ts, pr[2])}

\* ... and the order they are compared in
ComparedBefore(ts, a, b) ==
    LET ka == <<GroupRank(ts, a[1]), GroupAccountRank(ts, a[1]),
                GroupAccountRank(ts, a[2]), a[1], a[2]>>
        kb == <<GroupRank(ts, b[1]), GroupAccountRank(ts, b[1]),
                GroupAccountRank(ts, b[2]), b[1], b[2]>>
    IN  \E n \in 1..5 : ka[n] < kb[n] /\ \A m \in 1..(n - 1) : ka[m] = kb[m]

\* mutant: the candidate is stored as a confirmed duplicate
DuplicateDataConfirmed(tx1, tx2) ==
    [tx1_hash |-> _create_transaction_hash(tx1),
     tx2_hash |-> _create_transaction_hash(tx2),
     similarity_score |-> _calculate_similarity_score(tx1, tx2),
     is_duplicate |-> TRUE,
     user_confirmed |-> FALSE]

duplicate_data(tx1, tx2) ==
    [tx1_hash |-> _create_transaction_hash(tx1),
     tx2_hash |-> _create_transaction_hash(tx2),
     similarity_score |-> _calculate_similarity_score(tx1, tx2),
     is_duplicate |-> FALSE,
     user_confirmed |-> FALSE]

RECURSIVE DuplicateLoop(_, _, _)
\* found: detected_duplicates so far; paired: the pairs that gave them
DuplicateLoop(ts, st, todo) ==
    IF todo = {} THEN st
    ELSE LET pr == MinBy(todo, LAMBDA a, b : ComparedBefore(ts, a, b))
         IN  DuplicateLoop(ts,
                 IF _is_duplicate_candidate(ts[pr[1]], ts[pr[2]])
                 THEN [found |-> Append(st.found, duplicate_data(ts[pr[1]], ts[pr[2]])),
                       paired |-> st.paired \cup {pr}]
                 ELSE st,
                 todo \ {pr})

DuplicateCompare(ts) ==
    DuplicateLoop(ts, [found |-> <<>>, paired |-> {}], DuplicatePairs(ts))

\* insert_ok: whether storing the candidates succeeds; when it raises, the
\* except branch returns []
duplicates_returned(found, insert_ok) ==
    IF found = <<>> \/ insert_ok THEN found ELSE <<>>

-----------------------------------------------------------------------------
(* MultiBankDetector.detect_debt_payments *)

\* the patterns, each as the text before and the text after its group (.+)
debt_patterns ==
    <<<<<<"P","A","Y","M","E","N","T"," ","T","O"," ">>, <<" ","C","A","R","D">>>>,
      <<<<"P","A","Y","M","E","N","T"," ","T","O"," ">>, <<" ","C","R","E","D","I","T">>>>,
      <<<<"P","A","Y","M","E","N","T"," ","T","O"," ">>, <<" ","L","O","A","N">>>>,
      <<<<"P","A","Y","M","E","N","T"," ","T","O"," ">>, <<" ","M","O","R","T","G","A","G","E">>>>,
      <<<<>>, <<" ","C","A","R","D"," ","P","A","Y","M","E","N","T">>>>,
      <<<<>>, <<" ","L","O","A","N"," ","P","A","Y","M","E","N","T">>>>>>

\* the places where sub occurs in s
Occurrences(sub, s) ==
    {q \in 1..(Len(s) - Len(sub) + 1) : SubSeq(s, q, q + Len(sub) - 1) = sub}

\* re.search of  before(.+)after  in s: the leftmost start that can match,
\* and from there the longest group
re_search(pattern, s) ==
    LET before == pattern[1]
        after  == pattern[2]
        ends   == Occurrences(after, s)
        starts == {k \in Occurrences(before, s) :
                      \E q \in ends : q >= k + Len(before) + 1}
    IN  IF starts = {} THEN [matched |-> FALSE, group |-> <<>>]
        ELSE LET k == CHOOSE x \in starts : \A y \in starts : x <= y
                 qs == {q \in ends : q >= k + Len(before) + 1}
                 q == CHOOSE x \in qs : \A y \in qs : x >= y
             IN  [matched |-> TRUE, group |-> SubSeq(s, k + Len(before), q - 1)]

Loan == <<"L","O","A","N">>
Mortgage == <<"M","O","R","T","G","A","G","E">>

\* the record for a description that the k-th pattern matches
debt_payment(tx, k) ==
    LET description_upper == upper(tx.description)
    IN  [account_name |-> strip(re_search(debt_patterns[k], description_upper).group),
         debt_type |-> IF Contains(Loan, description_upper)
                          \/ Contains(Mortgage, description_upper)
                       THEN "loan" ELSE "credit_card",
         amount |-> Abs(tx.amount),
         payment_date |-> Take(isoformat(tx.posted_at), 3)]

\* mutant: incoming payments are looked at as well
DebtRecordsAnySign(tx) ==
    LET description_upper == upper(tx.description)
        hits == {k \in Indices(debt_patterns) :
                    re_search(debt_patterns[k], description_upper).matched}
    IN  IF hits # {}
        THEN <<debt_payment(tx, CHOOSE k \in hits : \A m \in hits : k <= m)>>
        ELSE <<>>

\* what one transaction adds to debt_payments: the loop over the patterns
\* stops at the first that matches
DebtRecords(tx) ==
    LET description_upper == upper(tx.description)
        hits == {k \in Indices(debt_patterns) :
                    re_search(debt_patterns[k], description_upper).matched}
    IN  IF tx.amount < 0 /\ hits # {}
        THEN <<debt_payment(tx, CHOOSE k \in hits : \A m \in hits : k <= m)>>
        ELSE <<>>

RECURSIVE DebtLoop(_, _, _)
\* found: debt_payments so far; paired: <<transaction, record>> positions
DebtLoop(ts, st, i) ==
    IF i > Len(ts) THEN st
    ELSE LET new == DebtRecords(ts[i])
         IN  DebtLoop(ts,
                 [found |-> st.found \o new,
                  paired |-> st.paired \cup
                             {<<i, Len(st.found) + n>> : n \in Indices(new)}],
                 i + 1)

detect_debt_payments(ts) == DebtLoop(ts, [found |-> <<>>, paired |-> {}], 1)

-----------------------------------------------------------------------------
(* MultiBankDetector.categorize_uk_utilities *)

\* the table in the order the dict is written; a pattern is its source text
UK_UTILITY_PATTERNS ==
    <<[category |-> "council_tax",
       patterns |-> <<<<"C","O","U","N","C","I","L"," ","T","A","X">>,
                     <<"\\","b","C","O","U","N","C","I","L","\\","b">>,
                     <<"L","O","C","A","L"," ","A","U","T","H","O","R","I","T","Y">>>>],
      [category |-> "water",
       patterns |-> <<<<"W","A","T","E","R">>,
                     <<"T","H","A","M","E","S">>,
                     <<"A","N","G","L","I","A","N">>,
                     <<"S","E","V","E","R","N"," ","T","R","E","N","T">>,
                     <<"U","N","I","T","E","D"," ","U","T","I","L","I","T","I","E","S">>,
                     <<"Y","O","R","K","S","H","I","R","E"," ","W","A","T","E","R">>>>],
      [category |-> "energy",
       patterns |-> <<<<"B","R","I","T","I","S","H"," ","G","A","S">>,
                     <<"E","D","F"," ","E","N","E","R","G","Y">>,
                     <<"E","\\",".","O","N">>,
                     <<"O","C","T","O","P","U","S">>,
                     <<"B","U","L","B">>,
                     <<"O","V","O">>,
                     <<"U","T","I","L","I","T","A">>>>],
      [category |-> "broadband",
       patterns |-> <<<<"B","T","\\","b">>,
                     <<"S","K","Y">>,
                     <<"V","I","R","G","I","N"," ","M","E","D","I","A">>,
                     <<"T","A","L","K","T","A","L","K">>,
                     <<"P","L","U","S","N","E","T">>,
                     <<"E","E","\\","b">>>>],
      [category |-> "mortgage",
       patterns |-> <<<<"M","O","R","T","G","A","G","E">>,
                     <<"H","A","L","I","F","A","X"," ","M","T","G">>,
                     <<"S","A","N","T","A","N","D","E","R"," ","M","T","G">>,
                     <<"N","A","T","I","O","N","W","I","D","E"," ","B","S">>,
                     <<"B","A","R","C","L","A","Y","S"," ","M","T","G">>>>],
      [category |-> "rent",
       patterns |-> <<<<"R","E","N","T">>,
                     <<"L","E","T","T","I","N","G">>,
                     <<"E","S","T","A","T","E"," ","A","G","E","N","T">>,
                     <<"P","R","O","P","E","R","T","Y"," ","M","A","N","A","G","E","M","E","N","T">>,
                     <<"L","A","N","D","L","O","R","D">>>>],
      [category |-> "insurance",
       patterns |-> <<<<"I","N","S","U","R","A","N","C","E">>,
                     <<"A","D","M","I","R","A","L">>,
                     <<"D","I","R","E","C","T"," ","L","I","N","E">>,
                     <<"A","V","I","V","A">>,
                     <<"C","H","U","R","C","H","I","L","L">>>>],
      [category |-> "mobile",
       patterns |-> <<<<"V","O","D","A","F","O","N","E">>,
                     <<"O","2","\\","b">>,
                     <<"T","H","R","E","E","\\","b">>,
                     <<"E","E"," ","M","O","B","I","L","E">>,
                     <<"G","I","F","F","G","A","F","F">>>>],
      [category |-> "council",
       patterns |-> <<<<"C","O","U","N","C","I","L">>,
                     <<"B","O","R","O","U","G","H">>,
                     <<"D","I","S","T","R","I","C","T"," ","C","O","U","N","C","I","L">>,
                     <<"C","I","T","Y"," ","C","O","U","N","C","I","L">>>>]>>

WordBoundary == <<"\\", "b">>

Digits == {"0", "1", "2", "3", "4", "5", "6", "7", "8", "9"}

\* \w
IsWord(c) ==
    \/ \E k \in Indices(UpperLetters) : c = UpperLetters[k] \/ c = LowerLetters[k]
    \/ c \in Digits \cup {"_"}

\* whether s has a word character at position q
WordAt(s, q) == q \in Indices(s) /\ IsWord(s[q])

\* \b between positions q - 1 and q
BoundaryAt(s, q) == WordAt(s, q - 1) # WordAt(s, q)

\* the text a pattern stands for: without \b at its ends and without the
\* backslash of an escaped character
Literal(pattern) ==
    LET a == IF startswith(pattern, WordBoundary)
             THEN SubSeq(pattern, 3, Len(pattern)) ELSE pattern
        b == IF endswith(a, WordBoundary) THEN SubSeq(a, 1, Len(a) - 2) ELSE a
    IN  SelectSeq(b, LAMBDA c : c # "\\")

\* the (category, pattern) positions of the table, in the order of the loops
TableSlots ==
    UNION {{<<c, p>> : p \in Indices(UK_UTILITY_PATTERNS[c].patterns)} :
              c \in Indices(UK_UTILITY_PATTERNS)}

SlotBefore(a, b) == a[1] < b[1] \/ (a[1] = b[1] /\ a[2] < b[2])

PatternAt(slot) == UK_UTILITY_PATTERNS[slot[1]].patterns[slot[2]]

\* the patterns of the table with what each stands for, in upper case
LiteralOf ==
    [pattern \in {PatternAt(slot) : slot \in TableSlots} |-> upper(Literal(pattern))]

\* re.search(pattern, text, re.IGNORECASE): letters are compared in upper
\* case; text is in upper case already
Matches(pattern, text) ==
    LET lit == LiteralOf[pattern]
    IN  \E q \in 1..(Len(text) - Len(lit) + 1) :
            /\ \A m \in 1..Len(lit) : text[q + m - 1] = lit[m]
            /\ startswith(pattern, WordBoundary) => BoundaryAt(text, q)
            /\ endswith(pattern, WordBoundary) => BoundaryAt(text, q + Len(lit))

SpecificLength == 10

\* 0.9 or 0.7, in tenths
Confidence(pattern) == IF Len(pattern) > SpecificLength THEN 9 ELSE 7

text_to_match(transaction) ==
    upper(transaction.description) \o <<" ">> \o upper(transaction.merchant)

NoBest == [best_match |-> NULL, best_confidence |-> 0]

\* mutant: the first pattern that matches is kept
UtilityStepFirstKept(best, slot, text) ==
    IF Matches(PatternAt(slot), text) /\ best.best_match = NULL
    THEN [best_match |-> UK_UTILITY_PATTERNS[slot[1]].category,
          best_confidence |-> Confidence(PatternAt(slot))]
    ELSE best

\* the body of the inner loop for one pattern
UtilityStep(best, slot, text) ==
    IF Matches(PatternAt(slot), text)
       /\ Confidence(PatternAt(slot)) > best.best_confidence
    THEN [best_match |-> UK_UTILITY_PATTERNS[slot[1]].category,
          best_confidence |-> Confidence(PatternAt(slot))]
    ELSE best

RECURSIVE UtilityLoop(_, _, _)
UtilityLoop(best, todo, text) ==
    IF todo = {} THEN best
    ELSE LET slot == MinBy(todo, SlotBefore)
         IN  UtilityLoop(UtilityStep(best, slot, text), todo \ {slot}, text)

\* the result as a list: one (category, confidence) or, for None, nothing
categorize_uk_utilities(transaction) ==
    LET best == UtilityLoop(NoBest, TableSlots, text_to_match(transaction))
    IN  IF best.best_match # NULL THEN <<best>> ELSE <<>>

-----------------------------------------------------------------------------
(* TransactionProcessor.normalize_batch *)

\* a Transaction of the provider that carries no account_id attribute
Missing == "missing"

\* parts[0] of description.strip().split(), or the description itself when
\* it has no parts
_extract_merchant(description) ==
    LET stripped == strip(description)
        blanks == {k \in Indices(stripped) : stripped[k] = " "}
    IN  IF stripped = <<>> THEN description
        ELSE IF blanks = {} THEN stripped
        ELSE SubSeq(stripped, 1, (CHOOSE k \in blanks : \A m \in blanks : k <= m) - 1)

\* Decimal(str(amount)) of a float amount: str() gives the shortest decimal
\* that reads back as the float, which for an amount of thousandths is that
\* amount
DecimalOfFloat(amount) == Sign(amount) * Pounds(Abs(amount) \div 1000, Abs(amount) % 1000)

\* the outcome of one normalize_transaction call: the object constructed or
\* the exception raised. A currency other than GBP multiplies the float
\* amount by a Decimal rate, which raises TypeError; reading account_id of a
\* Transaction without one raises AttributeError.
normalize_transaction(tx) ==
    LET merchant == IF tx.merchant_name # <<>> THEN tx.merchant_name
                    ELSE _extract_merchant(tx.description)
    IN  IF tx.currency # "GBP" THEN [ok |-> FALSE, error |-> "TypeError"]
        ELSE IF tx.account_id = Missing THEN [ok |-> FALSE, error |-> "AttributeError"]
        ELSE [ok |-> TRUE,
              tx |-> NewTx(tx.transaction_id,
                           [account_id |-> tx.account_id, posted_at |-> tx.timestamp,
                            amount |-> DecimalOfFloat(tx.amount),
                            description |-> tx.description, merchant |-> merchant])]

\* the list comprehension over the batch: the first exception ends it
NormalizeAll(transactions) ==
    LET bad == {i \in Indices(transactions) : ~normalize_transaction(transactions[i]).ok}
    IN  IF bad # {}
        THEN [raised |-> TRUE,
              error |-> normalize_transaction(
                            transactions[CHOOSE i \in bad : \A j \in bad : i <= j]).error]
        ELSE [raised |-> FALSE,
              normalized |-> [i \in Indices(transactions) |->
                                 normalize_transaction(transactions[i]).tx]]

\* normalize, deduplicate, detect transfers; an exception of the first step
\* leaves the processor as it was
normalize_batch(transactions, rh, clock) ==
    LET n == NormalizeAll(transactions)
    IN  IF n.raised THEN [raised |-> TRUE, error |-> n.error, recent |-> rh]
        ELSE LET d == deduplicate_transactions(n.normalized, rh, clock)
             IN  [raised |-> FALSE, txs |-> detect_transfers(d.txs), recent |-> d.recent]

-----------------------------------------------------------------------------
(* fetch_transactions_with_retry and _fetch_all_accounts *)

StopAfterAttempt == 3

NoException == [type |-> "none", status |-> 0, error |-> ""]

\* what the provider can answer to one GET of an account's transactions:
\* 200, 403 with error sca_exceeded, 403 with another error, 500; status 0
\* stands for no answer within the client's timeout
Responses ==
    {[status |-> 200, error |-> ""],
     [status |-> 403, error |-> "sca_exceeded"],
     [status |-> 403, error |-> "access_denied"],
     [status |-> 500, error |-> ""],
     [status |-> 0, error |-> ""]}

\* what open_banking_service.get_transactions raises: raise_for_status()
\* raises httpx.HTTPStatusError for 4xx and 5xx, which the method catches and
\* replaces by ValueError; any other exception is raised again as it is
get_transactions(response) ==
    IF response.status = 0
    THEN [type |-> "ReadTimeout", status |-> 0, error |-> ""]
    ELSE IF response.status >= 400
    THEN [type |-> "ValueError", status |-> response.status, error |-> response.error]
    ELSE NoException

\* try: ... except: pass  around the raise of ReauthRequired
BareExcept(raised) == NoException

\* the body of fetch_transactions_with_retry, given what get_transactions
\* raised: what the body raises
fetch_body(e) ==
    IF e.type = "HTTPStatusError"
    THEN LET inner == IF e.status = 403 /\ e.error = "sca_exceeded"
                      THEN [type |-> "ReauthRequired", status |-> 0, error |-> ""]
                      ELSE NoException
         IN  IF BareExcept(inner) # NoException THEN BareExcept(inner) ELSE e
    ELSE e

\* retry_if_exception_type(httpx.HTTPStatusError)
retry_if(e) == e.type = "HTTPStatusError"

\* how the call stands after an attempt that raised e, the n-th
after_attempt(e, n) ==
    IF e = NoException THEN "returned"
    ELSE IF ~retry_if(e) THEN e.type
    ELSE IF n >= StopAfterAttempt THEN "RetryError"
    ELSE "running"

-----------------------------------------------------------------------------
(* BudgetEngine.calculate_summary *)

\* a category or period that is None or empty is false in a condition
Truthy(c) == c \notin {NULL, ""}

NoPeriod == <<>>

\* mutant: duplicates are not filtered out
ValidTxsKeepingDuplicates(ts) == SelectSeq(ts, LAMBDA tx : ~tx.is_transfer)

\* valid_txs = [tx for tx in transactions if not tx.is_transfer and not tx.is_duplicate]
ValidTxs(ts) == SelectSeq(ts, LAMBDA tx : ~tx.is_transfer /\ ~tx.is_duplicate)

\* if period: keep the transactions of that year and month
InPeriod(ts, period) ==
    IF period # NoPeriod
    THEN SelectSeq(ts, LAMBDA tx : /\ YearOf(tx.posted_at) = period[1]
                                   /\ MonthOf(tx.posted_at) = period[2])
    ELSE ts

\* if tx.category and tx.amount < 0
Spends(tx) == Truthy(tx.category) /\ tx.amount < 0

RECURSIVE SpentOn(_, _, _)
\* what valid[i:] adds to spending_by_category[c]
SpentOn(valid, c, i) ==
    IF i > Len(valid) THEN 0
    ELSE (IF Spends(valid[i]) /\ valid[i].category = c THEN Abs(valid[i].amount) ELSE 0)
         + SpentOn(valid, c, i + 1)

\* mutant: each outflow overwrites what its category had
SpendingByCategoryOverwriting(valid) ==
    LET keys == {valid[i].category : i \in {j \in Indices(valid) : Spends(valid[j])}}
        last(c) == CHOOSE i \in Indices(valid) :
                       /\ Spends(valid[i]) /\ valid[i].category = c
                       /\ \A j \in Indices(valid) :
                              (Spends(valid[j]) /\ valid[j].category = c) => j <= i
    IN  [c \in keys |-> Abs(valid[last(c)].amount)]

\* spending_by_category: category -> summed magnitude of its outflows
SpendingByCategory(valid) ==
    LET keys == {valid[i].category : i \in {j \in Indices(valid) : Spends(valid[j])}}
    IN  [c \in keys |-> SpentOn(valid, c, 1)]

RECURSIVE TotalIncome(_, _)
\* sum(abs(tx.amount) for tx in valid_txs[i:] if tx.amount > 0)
TotalIncome(valid, i) ==
    IF i > Len(valid) THEN 0
    ELSE (IF valid[i].amount > 0 THEN Abs(valid[i].amount) ELSE 0)
         + TotalIncome(valid, i + 1)

\* mutant: an overspent category is reported with nothing remaining
CategorySummaryClipped(cat, spending) ==
    LET spent == IF cat.key \in DOMAIN spending THEN spending[cat.key] ELSE 0
    IN  [key |-> cat.key, label |-> cat.label, target |-> cat.target,
         spent |-> spent,
         remaining |-> IF cat.target < spent THEN 0 ELSE cat.target - spent,
         rollover |-> cat.rollover]

\* one entry of category_summaries
CategorySummary(cat, spending) ==
    LET spent == IF cat.key \in DOMAIN spending THEN spending[cat.key] ELSE 0
    IN  [key |-> cat.key, label |-> cat.label, target |-> cat.target,
         spent |-> spent, remaining |-> cat.target - spent, rollover |-> cat.rollover]

RECURSIVE SumValues(_)
\* sum(d.values())
SumValues(d) ==
    IF DOMAIN d = {} THEN 0
    ELSE LET k == CHOOSE x \in DOMAIN d : TRUE
         IN  d[k] + SumValues([x \in DOMAIN d \ {k} |-> d[x]])

\* mutant: the categorized transactions are counted before the filters
CategorizedAmongAll(ts, valid) ==
    Cardinality({i \in Indices(ts) : Truthy(ts[i].category)})

\* categorized = sum(1 for tx in valid_txs if tx.category)
Categorized(ts, valid) ==
    Cardinality({i \in Indices(valid) : Truthy(valid[i].category)})

\* coverage = categorized / len(valid_txs) if valid_txs else 0, as a fraction
Coverage(ts, valid) ==
    IF valid # <<>>
    THEN [num |-> Categorized(ts, valid), den |-> Len(valid)]
    ELSE [num |-> 0, den |-> 1]

\* amounts stay exact decimals here; float() takes each to the nearest double
calculate_summary(ts, cats, period, clock) ==
    LET valid    == InPeriod(ValidTxs(ts), period)
        spending == SpendingByCategory(valid)
    IN  [period |-> IF period # NoPeriod THEN period
                    ELSE <<YearOf(clock), MonthOf(clock)>>,
         last_updated |-> clock,
         totals |-> [spent |-> SumValues(spending),
                     income |-> TotalIncome(valid, 1),
                     savings |-> 0],
         categories |-> [k \in Indices(cats) |-> CategorySummary(cats[k], spending)],
         coverage_pct |-> Coverage(ts, valid)]

-----------------------------------------------------------------------------
(* MultiBankDetector.process_transactions *)

HighConfidence == 8     \* category_result[1] > 0.8, in tenths

\* the loop over the transactions: one without a category gets the category
\* categorize_uk_utilities answers, if it answers one
utilities_categorized(ts) ==
    [i \in Indices(ts) |->
        LET category_result == IF Truthy(ts[i].category) THEN <<>>
                               ELSE categorize_uk_utilities(ts[i])
        IN  IF category_result = <<>> THEN ts[i]
            ELSE [ts[i] EXCEPT
                    !.category = category_result[1].best_match,
                    !.category_confidence =
                        IF category_result[1].best_confidence > HighConfidence
                        THEN "high" ELSE "medium"]]

\* the transactions as process_transactions leaves them: detect_transfers
\* flags, the two candidate detectors change nothing, utilities categorizes
process_transactions(ts) ==
    LET st == MultiBankCompare(ts)
    IN  [txs |-> utilities_categorized(st.txs), found |-> st.found, paired |-> st.paired]

-----------------------------------------------------------------------------
(* TransactionProcessor.apply_rules *)

\* whether a matchers dict has the key
Has(matchers, key) == key \in DOMAIN matchers

\* Decimal(str(x)) of a JSON number is its decimal value; amounts are compared
\* as decimals
_rule_matches(tx, matchers) ==
    IF /\ Has(matchers, "merchant")
       /\ \/ tx.merchant = <<>>
          \/ ~Contains(lower(matchers.merchant), lower(tx.merchant))
    THEN FALSE
    ELSE IF /\ Has(matchers, "description_contains")
            /\ ~Contains(lower(matchers.description_contains), lower(tx.description))
    THEN FALSE
    ELSE IF Has(matchers, "amount_min") /\ tx.amount < matchers.amount_min
    THEN FALSE
    ELSE IF Has(matchers, "amount_max") /\ tx.amount > matchers.amount_max
    THEN FALSE
    ELSE TRUE

\* mutant: the last matching rule wins
ApplyUserRulesLastMatch(tx, rs) ==
    LET hits == {k \in Indices(rs) : _rule_matches(tx, rs[k].matchers)}
    IN  IF hits = {} THEN NULL
        ELSE rs[CHOOSE k \in hits : \A m \in hits : k >= m].category_key

\* the category_key of the first rule that matches, else None
_apply_user_rules(tx, rs) ==
    LET hits == {k \in Indices(rs) : _rule_matches(tx, rs[k].matchers)}
    IN  IF hits = {} THEN NULL
        ELSE rs[CHOOSE k \in hits : \A m \in hits : k <= m].category_key

GroceriesKeywords ==
    {<<"t","e","s","c","o">>,
     <<"s","a","i","n","s","b","u","r","y">>,
     <<"a","s","d","a">>,
     <<"w","a","i","t","r","o","s","e">>,
     <<"m","o","r","r","i","s","o","n","s">>,
     <<"a","l","d","i">>,
     <<"l","i","d","l">>,
     <<"r","e","s","t","a","u","r","a","n","t">>,
     <<"c","a","f","e">>,
     <<"p","i","z","z","a">>}
TransportKeywords ==
    {<<"s","h","e","l","l">>,
     <<"b","p">>,
     <<"e","s","s","o">>,
     <<"t","f","l">>,
     <<"u","b","e","r">>,
     <<"t","r","a","i","n">>,
     <<"f","u","e","l">>,
     <<"p","e","t","r","o","l">>}
UtilitiesKeywords ==
    {<<"b","r","i","t","i","s","h"," ","g","a","s">>,
     <<"e","d","f">>,
     <<"b","t">>,
     <<"v","i","r","g","i","n">>,
     <<"s","k","y">>,
     <<"v","o","d","a","f","o","n","e">>}
EntertainmentKeywords ==
    {<<"c","i","n","e","m","a">>,
     <<"n","e","t","f","l","i","x">>,
     <<"s","p","o","t","i","f","y">>,
     <<"s","t","e","a","m">>,
     <<"g","y","m">>}
ShoppingKeywords ==
    {<<"a","m","a","z","o","n">>,
     <<"e","b","a","y">>,
     <<"a","r","g","o","s">>,
     <<"j","o","h","n"," ","l","e","w","i","s">>}

AnyKeyword(kws, text) == \E kw \in kws : Contains(kw, text)

_categorize_heuristic(tx) ==
    LET text == lower(tx.merchant \o <<" ">> \o tx.description)
    IN  IF AnyKeyword(GroceriesKeywords, text) THEN "groceries"
        ELSE IF AnyKeyword(TransportKeywords, text) THEN "transport"
        ELSE IF AnyKeyword(UtilitiesKeywords, text) THEN "utilities"
        ELSE IF AnyKeyword(EntertainmentKeywords, text) THEN "entertainment"
        ELSE IF AnyKeyword(ShoppingKeywords, text) THEN "shopping"
        ELSE NULL

\* mutant: the confidence is taken from the category the transaction had
CategorizeStaleConfidence(tx, rs) ==
    LET by_rule  == _apply_user_rules(tx, rs)
        category == IF ~Truthy(by_rule) THEN _categorize_heuristic(tx) ELSE by_rule
    IN  [tx EXCEPT !.category = category,
                   !.category_confidence = IF Truthy(tx.category) THEN "high" ELSE "low"]

\* the body of the loop for a transaction that is not skipped
Categorize(tx, rs) ==
    LET by_rule  == _apply_user_rules(tx, rs)
        category == IF ~Truthy(by_rule) THEN _categorize_heuristic(tx) ELSE by_rule
    IN  [tx EXCEPT !.category = category,
                   !.category_confidence = IF Truthy(category) THEN "high" ELSE "low"]

\* mutant: flagged transactions are categorized like the others
ApplyRulesUnskipped(ts, rs) ==
    [i \in Indices(ts) |-> Categorize(ts[i], rs)]

apply_rules(ts, rs) ==
    [i \in Indices(ts) |->
        IF ts[i].is_transfer \/ ts[i].is_duplicate THEN ts[i] ELSE Categorize(ts[i], rs)]

-----------------------------------------------------------------------------
(* Inputs *)

T0 == Days(9) + Hours(9)          \* 2025-01-10T09:00Z

TickMinutes == Days(7) \div 2     \* the clock advances half a cleanup period

TescoExpress == <<"T","e","s","c","o"," ","E","x","p","r","e","s","s">>
TescoM == <<"T","e","s","c","o">>
LongA == Repeat("x", DescPrefixLen) \o <<"a">>
LongB == Repeat("x", DescPrefixLen) \o <<"b">>

Tesco(acc, t, d) ==
    [account_id |-> acc, posted_at |-> t, amount |-> 0 - Pounds(5, 500),
     description |-> d, merchant |-> TescoM]

\* same account, amount and description; 09:00, 09:05 and 36 hours later
CoffeeFeed ==
    {Tesco("acc_123", T0 + d, TescoExpress) : d \in {0, 5, Hours(36)}}

\* a jointly linked account: each of its users is delivered these
JointFeed ==
    {Tesco("acc_123", T0 + d, TescoExpress) : d \in {0, 5}}

\* same account, amount and description; 71 and 73 hours apart
WindowFeed ==
    {Tesco("acc_123", T0 + d, TescoExpress) : d \in {0, Hours(71), Hours(73)}}

\* same timestamp and amount; descriptions that agree on the first 50
\* characters only; another account
AgreeFeed ==
    {Tesco("acc_123", T0, LongA), Tesco("acc_123", T0, LongB),
     Tesco("acc_456", T0, LongA)}

DedupFeeds == {CoffeeFeed, WindowFeed, AgreeFeed}

TransferIn == <<"T","r","a","n","s","f","e","r"," ","I","n">>
TransferOut == <<"T","r","a","n","s","f","e","r"," ","O","u","t">>
PaymentToBob == <<"P","a","y","m","e","n","t"," ","t","o"," ","B","o","b">>

Moved(acc, t, a, d) ==
    [account_id |-> acc, posted_at |-> t, amount |-> a, description |-> d,
     merchant |-> <<>>]

\* 100.00 in and out of two accounts: the same day, the next day, half a penny
\* off, and as a payment to a merchant
TransferFeed ==
    {Moved("acc_1", T0, Pounds(100, 0), TransferIn),
     Moved("acc_2", T0, Pounds(100, 0), TransferIn),
     Moved("acc_2", T0, 0 - Pounds(100, 0), TransferOut),
     Moved("acc_1", T0, 0 - Pounds(100, 0), TransferOut),
     Moved("acc_2", T0 + Days(1), 0 - Pounds(100, 0), TransferOut),
     Moved("acc_2", T0, 0 - Pounds(100, 5), TransferOut),
     Moved("acc_2", T0, 0 - Pounds(100, 0), PaymentToBob)}

DirectDebit == <<"D","i","r","e","c","t"," ","D","e","b","i","t"," ","G","y","m">>

Noon == T0 + Days(4) + Hours(3)

\* 100.00 into one account and out of another three days later, three and a
\* half days earlier or later, two pence off, and as a direct debit
CandidateFeed ==
    {Moved("acc_1", Noon, Pounds(100, 0), TransferIn),
     Moved("acc_2", Noon - Days(3) - Hours(12), 0 - Pounds(100, 0), TransferOut),
     Moved("acc_2", Noon + Days(3) + Hours(12), 0 - Pounds(100, 0), TransferOut),
     Moved("acc_2", Noon + Days(3), 0 - Pounds(100, 0), TransferOut),
     Moved("acc_2", Noon, 0 - Pounds(100, 20), TransferOut),
     Moved("acc_2", Noon, 0 - Pounds(100, 0), DirectDebit)}

Groceries == [key |-> "groceries", label |-> "Groceries", target |-> Pounds(140, 0),
              rollover |-> FALSE]
Utilities == [key |-> "utilities", label |-> "Utilities", target |-> Pounds(5, 0),
              rollover |-> TRUE]

Transport == [key |-> "transport", label |-> "Transport", target |-> Pounds(5, 0),
              rollover |-> FALSE]

\* no category configured, one, or two
CategoryStores == {<<>>, <<Groceries>>, <<Groceries, Utilities>>, <<Transport, Groceries>>}

January == <<2025, 1>>
February == <<2025, 2>>

Periods == {NoPeriod, January, February}

Entry(t, a, c, transfer, duplicate) ==
    [account_id |-> "acc_123", posted_at |-> t, amount |-> a,
     description |-> TescoExpress, merchant |-> TescoM,
     category |-> c, category_confidence |-> IF c = NULL THEN NULL ELSE "high",
     is_transfer |-> transfer, is_duplicate |-> duplicate]

Netflix == <<"N","e","t","f","l","i","x">>
UberTrip == <<"U","b","e","r"," ","t","r","i","p">>
Express == <<"E","X","P","R","E","S","S">>

Described(d, m, a, c, transfer) ==
    [Entry(T0, a, c, transfer, FALSE) EXCEPT !.description = d, !.merchant = m]

\* transactions a rule, a keyword or nothing categorizes, fresh or already
\* categorized, one flagged transfer and one flagged duplicate; "netflix"
\* holds the keyword "tfl"
RulesFeed ==
    {Described(TescoExpress, TescoM, 0 - Pounds(45, 500), NULL, FALSE),
     Described(Netflix, <<>>, 0 - Pounds(10, 0), "groceries", FALSE),
     Described(UberTrip, <<>>, 0 - Pounds(10, 0), NULL, TRUE),
     [Described(Netflix, <<>>, 0 - Pounds(10, 0), "groceries", FALSE)
         EXCEPT !.is_duplicate = TRUE],
     Described(PaymentToBob, <<>>, 0 - Pounds(45, 500), NULL, FALSE),
     Described(PaymentToBob, <<>>, Pounds(100, 0), "groceries", FALSE)}

NoMatchers == [key \in {} |-> NULL]

\* rows of budget_rules: by merchant, by description and amount range, one
\* that matches everything, one with an empty category_key
RuleRows ==
    {[matchers |-> [merchant |-> TescoM], category_key |-> "food"],
     [matchers |-> [description_contains |-> Express,
                    amount_min |-> 0 - Pounds(50, 0), amount_max |-> 0 - Pounds(20, 0)],
      category_key |-> "convenience"],
     [matchers |-> NoMatchers, category_key |-> "misc"],
     [matchers |-> [amount_min |-> Pounds(0, 0)], category_key |-> ""]}

RuleStores == SeqsUpTo(RuleRows, MaxRules)

TescoExpressPurchase == <<"T","e","s","c","o"," ","E","x","p","r","e","s","s"," ","P","u","r","c","h","a","s","e">>
Sainsbury == <<"S","a","i","n","s","b","u","r","y">>

\* the transaction of test_rule_matching, the same amount as an inflow, and
\* a larger outflow without merchant
MatchFeed ==
    {Described(TescoExpressPurchase, TescoM, 0 - Pounds(25, 500), NULL, FALSE),
     Described(TescoExpressPurchase, TescoM, Pounds(25, 500), NULL, FALSE),
     Described(PaymentToBob, <<>>, 0 - Pounds(55, 0), NULL, FALSE)}

\* rule1 .. rule5 of test_rule_matching as rows of budget_rules
MatchRows ==
    {[matchers |-> [merchant |-> TescoM], category_key |-> "rule1"],
     [matchers |-> [description_contains |-> TescoExpress], category_key |-> "rule2"],
     [matchers |-> [amount_min |-> Pounds(20, 0), amount_max |-> Pounds(30, 0)],
      category_key |-> "rule3"],
     [matchers |-> [merchant |-> Sainsbury], category_key |-> "rule4"],
     [matchers |-> [amount_min |-> Pounds(50, 0)], category_key |-> "rule5"]}

MatchStores == SeqsUpTo(MatchRows, MaxRules)

NetflixLtd == <<"N","E","T","F","L","I","X"," ","L","T","D">>

Charged(acc, t, a, m, transfer) ==
    [Entry(t, a, NULL, transfer, FALSE) EXCEPT !.account_id = acc, !.merchant = m,
                                               !.description = m]

\* a subscription charged to two accounts: the same merchant a day later,
\* under another spelling, a fifth dearer, eight days later, and flagged as
\* a transfer
SubscriptionFeed ==
    {Charged("acc_1", T0, 0 - Pounds(9, 990), Netflix, FALSE),
     Charged("acc_2", T0 + Days(1), 0 - Pounds(9, 990), Netflix, FALSE),
     Charged("acc_2", T0, 0 - Pounds(9, 990), NetflixLtd, FALSE),
     Charged("acc_2", T0, 0 - Pounds(12, 0), Netflix, FALSE),
     Charged("acc_2", T0 + Days(8), 0 - Pounds(9, 990), Netflix, FALSE),
     Charged("acc_2", T0, 0 - Pounds(9, 990), Netflix, TRUE)}

Paid(a, d) ==
    [Entry(T0, a, NULL, FALSE, FALSE) EXCEPT !.description = d, !.merchant = <<>>]

\* payments to a card, out and in, to a mortgage and a loan, one that two
\* patterns match, and a purchase
DebtFeed ==
    {Paid(0 - Pounds(200, 0), <<"P","A","Y","M","E","N","T"," ","T","O"," ","V","I","S","A"," ","C","A","R","D">>),
     Paid(Pounds(200, 0), <<"P","A","Y","M","E","N","T"," ","T","O"," ","V","I","S","A"," ","C","A","R","D">>),
     Paid(0 - Pounds(500, 0), <<"P","a","y","m","e","n","t"," ","t","o"," ","H","a","l","i","f","a","x"," ","M","o","r","t","g","a","g","e">>),
     Paid(0 - Pounds(50, 0), <<"S","T","U","D","E","N","T"," ","L","O","A","N"," ","P","A","Y","M","E","N","T">>),
     Paid(0 - Pounds(75, 0), <<"P","A","Y","M","E","N","T"," ","T","O"," ","V","I","S","A"," ","C","A","R","D"," ","L","O","A","N">>),
     Paid(0 - Pounds(45, 500), TescoExpress)}

Billed(d, m) ==
    [Entry(T0, 0 - Pounds(45, 500), NULL, FALSE, FALSE) EXCEPT !.description = d,
                                                               !.merchant = m]

\* bills that one short pattern matches, a short and then a long one of the
\* same and of another category, a long one first, a word that only starts
\* like a pattern, a merchant that matches, and a purchase
UtilityFeed ==
    {Billed(<<"T","h","a","m","e","s"," ","W","a","t","e","r">>, <<>>),
     Billed(<<"D","I","R","E","C","T"," ","L","I","N","E"," ","I","N","S","U","R","A","N","C","E">>, <<>>),
     Billed(<<"W","A","T","E","R","S","I","D","E"," ","E","S","T","A","T","E"," ","A","G","E","N","T">>, <<>>),
     Billed(<<"C","O","U","N","C","I","L"," ","T","A","X">>, <<>>),
     Billed(<<"B","T","E","C"," ","C","O","L","L","E","G","E">>, <<>>),
     Billed(<<"D","D"," ","1","2","3">>, <<"E","E"," ","M","o","b","i","l","e">>),
     Billed(TescoExpress, TescoM)}

ShellPetrol == <<"S","h","e","l","l"," ","P","e","t","r","o","l">>

\* a Transaction as open_banking.get_transactions builds it
Fetched(id, acc, t, a, cur, d, m) ==
    [transaction_id |-> id, account_id |-> acc, timestamp |-> t, amount |-> a,
     currency |-> cur, description |-> d, merchant_name |-> m]

\* a purchase and its refund into another account, a purchase in euros and
\* one without an account reference
RawFeed ==
    {Fetched("tx_1", "acc_1", T0, 0 - Pounds(5, 500), "GBP", TescoExpress, TescoM),
     Fetched("tx_2", "acc_2", T0, Pounds(5, 500), "GBP", TransferIn, <<>>),
     Fetched("tx_3", "acc_1", T0, 0 - Pounds(12, 0), "EUR", ShellPetrol, <<>>),
     Fetched("tx_4", Missing, T0, 0 - Pounds(5, 500), "GBP", TescoExpress, TescoM)}

ThamesWater == <<"T","h","a","m","e","s"," ","W","a","t","e","r">>

\* a purchase flagged duplicate on an earlier run, and the two sides of a
\* transfer: a refund coming in and a water bill going out
ObjectFeed ==
    {Entry(T0, 0 - Pounds(45, 500), "groceries", FALSE, TRUE),
     [Entry(T0, Pounds(100, 0), NULL, FALSE, FALSE) EXCEPT !.account_id = "acc_1"],
     [Entry(T0, 0 - Pounds(100, 0), NULL, FALSE, FALSE)
         EXCEPT !.account_id = "acc_2", !.description = ThamesWater, !.merchant = <<>>]}

\* outflows and an inflow, in January and February, categorized or not, in a
\* configured category or not, flagged or not
LedgerFeed ==
    {Entry(T0, 0 - Pounds(45, 500), "groceries", FALSE, FALSE),
     Entry(T0, 0 - Pounds(10, 0), "groceries", TRUE, FALSE),
     Entry(T0, 0 - Pounds(10, 0), "utilities", FALSE, TRUE),
     Entry(T0, 0 - Pounds(10, 0), NULL, FALSE, FALSE),
     Entry(T0, 0 - Pounds(10, 0), "transport", FALSE, FALSE),
     Entry(T0 + Days(31), 0 - Pounds(45, 500), "groceries", FALSE, FALSE),
     Entry(T0, Pounds(100, 0), NULL, FALSE, FALSE),
     Entry(T0, Pounds(100, 0), "groceries", TRUE, FALSE)}

-----------------------------------------------------------------------------
(* State machine *)

NoSummary == [period |-> NoPeriod]

\* before any refresh
NoneEarlier == [ran |-> FALSE, raw |-> <<>>, flags |-> <<>>, summary |-> NoSummary]

\* the users of the deployment (get_current_user)
Users == {"user_a", "user_b"}

\* the budget_refresh requests of a run, and whose they are
Requests == 1..MaxRequests

user_id(r) == IF r % 2 = 1 THEN "user_a" ELSE "user_b"

\* TRANSACTION_CACHE.get(user_id) before any refresh of the user
NoEntry == [cached |-> FALSE, transactions |-> <<>>]

InitWith(feeds, stores, rulesets) ==
    /\ feed \in feeds
    /\ categories \in stores
    /\ rules \in rulesets
    /\ last_period = NoPeriod
    /\ txs = <<>>
    /\ recent_hashes = <<>>
    /\ now = T0
    /\ summary = NoSummary
    /\ lastOp = "init"
    /\ prevTxs = <<>>
    /\ prevHashes = <<>>
    /\ delivered = {}
    /\ prevDelivered = {}
    /\ pairs = {}
    /\ detected = <<>>
    /\ own_hashes = [u \in Users |-> <<>>]
    /\ alone = <<>>
    /\ USER_LOCKS = [u \in Users |-> FALSE]
    /\ TRANSACTION_CACHE = [u \in Users |-> NoEntry]
    /\ pc = [r \in Requests |-> "idle"]
    /\ calls = <<>>
    /\ failed_accounts = <<>>
    /\ earlier = NoneEarlier

\* the history variables of a step that is no operation on the batch
NoHistory ==
    /\ prevTxs' = txs'
    /\ prevHashes' = recent_hashes'
    /\ prevDelivered' = delivered'
    /\ pairs' = {}

\* a batch of fresh NormalizedTransaction objects, ids in arrival order
NewBatch ==
    /\ \E b \in SeqsUpTo(feed, MaxBatch) :
            txs' = [i \in Indices(b) |-> NewTx(i, b[i])]
    /\ lastOp' = "new_batch"
    /\ UNCHANGED <<recent_hashes, now, rules, categories, last_period, summary, delivered, detected, feed>>
    /\ NoHistory
    /\ UNCHANGED elsewhere

\* time passes between calls
Tick ==
    /\ now < T0 + MaxTicks * TickMinutes
    /\ now' = now + TickMinutes
    /\ lastOp' = "tick"
    /\ UNCHANGED <<txs, recent_hashes, rules, categories, last_period, summary, delivered, detected, feed>>
    /\ NoHistory
    /\ UNCHANGED elsewhere

\* processor.deduplicate_transactions(batch)
Deduplicate ==
    /\ txs # <<>>
    /\ LET r == deduplicate_transactions(txs, recent_hashes, now)
       IN  /\ txs' = r.txs
           /\ recent_hashes' = r.recent
    /\ lastOp' = "deduplicate"
    /\ prevTxs' = txs
    /\ prevHashes' = recent_hashes
    /\ delivered' = delivered \cup {Fields(txs[i]) : i \in Indices(txs)}
    /\ prevDelivered' = delivered
    /\ pairs' = {}
    /\ UNCHANGED <<now, rules, categories, last_period, summary, detected, feed>>
    /\ UNCHANGED elsewhere

\* the batch the transfer detectors work on: objects fresh from
\* deduplicate_transactions, which marked none or one of them (the dup-th);
\* none is flagged transfer
LoadBatch ==
    /\ lastOp = "init"
    /\ \E b \in SeqsUpTo(feed, MaxTransferBatch) :
        \E dup \in 0..Len(b) :
            txs' = [i \in Indices(b) |->
                        [NewTx(i, b[i]) EXCEPT !.is_duplicate = (i = dup)]]
    /\ lastOp' = "load_batch"
    /\ UNCHANGED <<recent_hashes, now, rules, categories, last_period, summary, delivered, detected, feed>>
    /\ NoHistory
    /\ UNCHANGED elsewhere

\* processor.detect_transfers(batch)
DetectTransfers ==
    /\ txs # <<>>
    /\ txs' = detect_transfers(txs)
    /\ pairs' = SinglePassPairs(txs)
    /\ lastOp' = "detect_transfers"
    /\ prevTxs' = txs
    /\ prevHashes' = recent_hashes
    /\ prevDelivered' = delivered
    /\ UNCHANGED <<recent_hashes, now, rules, categories, last_period, summary, delivered, detected, feed>>
    /\ UNCHANGED elsewhere

\* multibank_detector.detect_transfers(user_id, batch)
MultiBankDetectTransfers ==
    /\ txs # <<>>
    /\ LET st == MultiBankCompare(txs)
       IN  /\ txs' = st.txs
           /\ pairs' = st.paired
           /\ \E insert_ok \in BOOLEAN :
                  detected' = multibank_returned(st.found, insert_ok)
    /\ lastOp' = "multibank_detect_transfers"
    /\ prevTxs' = txs
    /\ prevHashes' = recent_hashes
    /\ prevDelivered' = delivered
    /\ UNCHANGED <<recent_hashes, now, rules, categories, last_period, summary, delivered, feed>>
    /\ UNCHANGED elsewhere

\* the cached transactions of a user as the pipeline left them: flagged or
\* not, categorized or not
LoadLedger ==
    /\ lastOp = "init"
    /\ \E b \in SeqsUpTo(feed, MaxLedger) :
            txs' = [i \in Indices(b) |->
                        [NewTx(i, b[i]) EXCEPT !.is_transfer = b[i].is_transfer,
                                               !.is_duplicate = b[i].is_duplicate,
                                               !.category = b[i].category,
                                               !.category_confidence =
                                                   b[i].category_confidence]]
    /\ lastOp' = "load_ledger"
    /\ UNCHANGED <<recent_hashes, now, rules, categories, last_period, summary, delivered,
                   detected, feed>>
    /\ NoHistory
    /\ UNCHANGED elsewhere

\* budget_engine.calculate_summary(transactions, user_id, period)
CalculateSummary ==
    /\ \E p \in Periods :
        /\ last_period' = p
        /\ summary' = calculate_summary(txs, categories, p, now)
    /\ lastOp' = "calculate_summary"
    /\ prevTxs' = txs
    /\ prevHashes' = recent_hashes
    /\ prevDelivered' = delivered
    /\ pairs' = {}
    /\ UNCHANGED <<txs, recent_hashes, now, rules, categories, delivered, detected, feed>>
    /\ UNCHANGED elsewhere

\* transaction_processor.apply_rules(transactions, user_id)
ApplyRules ==
    /\ txs' = apply_rules(txs, rules)
    /\ lastOp' = "apply_rules"
    /\ prevTxs' = txs
    /\ prevHashes' = recent_hashes
    /\ prevDelivered' = delivered
    /\ pairs' = {}
    /\ UNCHANGED <<recent_hashes, now, rules, categories, last_period, summary, delivered,
                   detected, feed>>
    /\ UNCHANGED elsewhere

\* multibank_detector.detect_duplicate_subscriptions(user_id, transactions)
DetectDuplicateSubscriptions ==
    /\ txs # <<>>
    /\ LET st == DuplicateCompare(txs)
       IN  /\ pairs' = st.paired
           /\ \E insert_ok \in BOOLEAN :
                  detected' = duplicates_returned(st.found, insert_ok)
    /\ lastOp' = "detect_duplicate_subscriptions"
    /\ prevTxs' = txs
    /\ prevHashes' = recent_hashes
    /\ prevDelivered' = delivered
    /\ UNCHANGED <<txs, recent_hashes, now, rules, categories, last_period, summary,
                   delivered, feed>>
    /\ UNCHANGED elsewhere

\* multibank_detector.detect_debt_payments(user_id, transactions)
DetectDebtPayments ==
    /\ txs # <<>>
    /\ LET st == detect_debt_payments(txs)
       IN  /\ pairs' = st.paired
           /\ detected' = st.found
    /\ lastOp' = "detect_debt_payments"
    /\ prevTxs' = txs
    /\ prevHashes' = recent_hashes
    /\ prevDelivered' = delivered
    /\ UNCHANGED <<txs, recent_hashes, now, rules, categories, last_period, summary,
                   delivered, feed>>
    /\ UNCHANGED elsewhere

\* multibank_detector.categorize_uk_utilities(tx) for one of the transactions
CategorizeUkUtilities ==
    /\ \E i \in Indices(txs) :
        /\ detected' = categorize_uk_utilities(txs[i])
        /\ pairs' = {<<i, i>>}
    /\ lastOp' = "categorize_uk_utilities"
    /\ prevTxs' = txs
    /\ prevHashes' = recent_hashes
    /\ prevDelivered' = delivered
    /\ UNCHANGED <<txs, recent_hashes, now, rules, categories, last_period, summary,
                   delivered, feed>>
    /\ UNCHANGED elsewhere

\* transaction_processor.normalize_batch(all_transactions) of a refresh: when
\* it raises, the refresh ends and nothing of the batch is kept
NormalizeBatch ==
    /\ \E b \in SeqsUpTo(feed, MaxBatch) :
        LET r == normalize_batch(b, recent_hashes, now)
        IN  /\ prevTxs' = b
            /\ recent_hashes' = r.recent
            /\ IF r.raised
               THEN /\ lastOp' = "normalize_batch_raised"
                    /\ UNCHANGED <<txs, delivered>>
               ELSE /\ lastOp' = "normalize_batch"
                    /\ txs' = r.txs
                    /\ delivered' = delivered \cup {Fields(r.txs[i]) : i \in Indices(r.txs)}
    /\ prevHashes' = recent_hashes
    /\ prevDelivered' = delivered
    /\ pairs' = {}
    /\ UNCHANGED <<now, rules, categories, last_period, summary, detected, feed>>
    /\ UNCHANGED elsewhere

\* a refresh of user u reaches transaction_processor.deduplicate_transactions
\* with a fresh batch; the processor is the one global instance
DeduplicateForUser ==
    /\ \E u \in Users, b \in SeqsUpTo(feed, MaxBatch) :
        LET batch == [i \in Indices(b) |-> NewTx(i, b[i])]
            r == deduplicate_transactions(batch, recent_hashes, now)
            o == deduplicate_transactions(batch, own_hashes[u], now)
        IN  /\ txs' = r.txs
            /\ recent_hashes' = r.recent
            /\ prevTxs' = batch
            /\ delivered' = delivered \cup {Fields(batch[i]) : i \in Indices(batch)}
            /\ pairs' = {}
            /\ own_hashes' = [own_hashes EXCEPT ![u] = o.recent]
            /\ alone' = o.txs
            /\ UNCHANGED <<USER_LOCKS, TRANSACTION_CACHE, pc, calls, failed_accounts,
                           earlier>>
    /\ lastOp' = "deduplicate_for_user"
    /\ prevHashes' = recent_hashes
    /\ prevDelivered' = delivered
    /\ UNCHANGED <<now, rules, categories, last_period, summary, detected, feed>>

\* mutant: entering the lock leaves it free
AcquireNothing(locks, u) == locks

\* async with lock, entered: the Lock of the user is held
acquire(locks, u) == [locks EXCEPT ![u] = TRUE]

\* async with lock, left (by return or by exception)
release(locks, u) == [locks EXCEPT ![u] = FALSE]

\* what a step of budget_refresh outside the pipeline leaves alone
RefreshHistory ==
    /\ prevHashes' = recent_hashes
    /\ prevDelivered' = delivered
    /\ pairs' = {}
    /\ UNCHANGED <<now, rules, categories, last_period, summary, detected, feed,
                   own_hashes, alone, calls, failed_accounts, earlier>>

\* a budget_refresh request starts: lock.locked() answers 409, otherwise the
\* lock is entered; nothing is awaited between the test and the entry
Arrive ==
    /\ \E r \in Requests :
        /\ pc[r] = "idle"
        /\ IF USER_LOCKS[user_id(r)]
           THEN /\ pc' = [pc EXCEPT ![r] = "rejected"]
                /\ lastOp' = "refresh_rejected"
                /\ UNCHANGED USER_LOCKS
           ELSE /\ pc' = [pc EXCEPT ![r] = "fetching"]
                /\ lastOp' = "refresh_started"
                /\ USER_LOCKS' = acquire(USER_LOCKS, user_id(r))
    /\ UNCHANGED <<txs, prevTxs, recent_hashes, delivered, TRANSACTION_CACHE>>
    /\ RefreshHistory

\* the refresh ends before the pipeline: 401, 404 or 504
Abandon ==
    /\ \E r \in Requests :
        /\ pc[r] = "fetching"
        /\ pc' = [pc EXCEPT ![r] = "failed"]
        /\ USER_LOCKS' = release(USER_LOCKS, user_id(r))
    /\ lastOp' = "refresh_abandoned"
    /\ UNCHANGED <<txs, prevTxs, recent_hashes, delivered, TRANSACTION_CACHE>>
    /\ RefreshHistory

\* the fetch has returned: normalize_batch, apply_rules, the cache write,
\* and the lock is left; an exception of normalize_batch answers 500
Refresh ==
    /\ \E r \in Requests, b \in SeqsUpTo(feed, MaxBatch) \cup {<<>>} :
        LET n == normalize_batch(b, recent_hashes, now)
            categorized == apply_rules(n.txs, rules)
        IN  /\ pc[r] = "fetching"
            /\ prevTxs' = b
            /\ recent_hashes' = n.recent
            /\ USER_LOCKS' = release(USER_LOCKS, user_id(r))
            /\ IF n.raised
               THEN /\ pc' = [pc EXCEPT ![r] = "failed"]
                    /\ lastOp' = "refresh_failed"
                    /\ UNCHANGED <<txs, delivered, TRANSACTION_CACHE>>
               ELSE /\ pc' = [pc EXCEPT ![r] = "done"]
                    /\ lastOp' = "refresh_done"
                    /\ txs' = categorized
                    /\ delivered' = delivered \cup
                                        {Fields(n.txs[i]) : i \in Indices(n.txs)}
                    /\ TRANSACTION_CACHE' =
                           [TRANSACTION_CACHE EXCEPT ![user_id(r)] =
                               [cached |-> TRUE, transactions |-> categorized]]
    /\ RefreshHistory

\* what a step of _fetch_all_accounts leaves alone
FetchHistory ==
    /\ prevTxs' = txs
    /\ prevHashes' = recent_hashes
    /\ prevDelivered' = delivered
    /\ pairs' = {}
    /\ UNCHANGED <<txs, recent_hashes, now, rules, categories, last_period, summary,
                   delivered, detected, feed, own_hashes, alone, USER_LOCKS,
                   TRANSACTION_CACHE, pc, earlier>>

\* for account in accounts: fetch_transactions_with_retry is called
BeginFetch ==
    /\ Len(calls) < MaxAccounts
    /\ IF calls = <<>> THEN TRUE ELSE calls[Len(calls)].ended # "running"
    /\ calls' = Append(calls, [responses |-> <<>>, ended |-> "running"])
    /\ lastOp' = "fetch_begun"
    /\ UNCHANGED failed_accounts
    /\ FetchHistory

\* one attempt of the call: the provider answers, the body runs, tenacity
\* decides; a call that ends in an exception puts the account on the list
Attempt ==
    /\ calls # <<>>
    /\ calls[Len(calls)].ended = "running"
    /\ \E response \in Responses :
        LET k == Len(calls)
            rs == Append(calls[k].responses, response)
            ended == after_attempt(fetch_body(get_transactions(response)), Len(rs))
        IN  /\ calls' = [calls EXCEPT ![k] = [responses |-> rs, ended |-> ended]]
            /\ failed_accounts' = IF ended \in {"running", "returned"}
                                  THEN failed_accounts
                                  ELSE Append(failed_accounts, k)
    /\ lastOp' = "fetch_attempt"
    /\ FetchHistory

\* budget_refresh and then get_budget_summary of the same user: the fetched
\* batch goes through normalize_batch and apply_rules into the cache, and
\* calculate_summary reads the cache; an exception of normalize_batch
\* answers 500 and the cache stays as it was
RefreshAndSummarize ==
    /\ \E b \in SeqsUpTo(feed, MaxBatch) :
        LET n == normalize_batch(b, recent_hashes, now)
            categorized == apply_rules(n.txs, rules)
        IN  /\ recent_hashes' = n.recent
            /\ IF n.raised
               THEN /\ lastOp' = "refresh_failed"
                    /\ UNCHANGED <<txs, prevTxs, delivered, summary, last_period, earlier>>
               ELSE /\ lastOp' = "refresh_and_summary"
                    /\ txs' = categorized
                    /\ prevTxs' = b
                    /\ delivered' = delivered \cup
                                        {Fields(n.txs[i]) : i \in Indices(n.txs)}
                    /\ last_period' = January
                    /\ summary' = calculate_summary(categorized, categories, January, now)
                    /\ earlier' = IF lastOp = "refresh_and_summary"
                                  THEN [ran |-> TRUE, raw |-> prevTxs,
                                        flags |-> [i \in Indices(txs) |-> txs[i].is_duplicate],
                                        summary |-> summary]
                                  ELSE NoneEarlier
    /\ prevHashes' = recent_hashes
    /\ prevDelivered' = delivered
    /\ pairs' = {}
    /\ UNCHANGED <<now, rules, categories, detected, feed, own_hashes, alone, USER_LOCKS,
                   TRANSACTION_CACHE, pc, calls, failed_accounts>>

\* multibank_detector.process_transactions(user_id, transactions)
ProcessTransactions ==
    /\ txs # <<>>
    /\ LET r == process_transactions(txs)
       IN  /\ txs' = r.txs
           /\ pairs' = r.paired
           /\ \E insert_ok \in BOOLEAN :
                  detected' = multibank_returned(r.found, insert_ok)
    /\ lastOp' = "process_transactions"
    /\ prevTxs' = txs
    /\ prevHashes' = recent_hashes
    /\ prevDelivered' = delivered
    /\ UNCHANGED <<recent_hashes, now, rules, categories, last_period, summary, delivered, feed>>
    /\ UNCHANGED elsewhere

InitDedup == InitWith(DedupFeeds, {<<>>}, {<<>>})

NextDedup == NewBatch \/ Deduplicate \/ Tick

SpecDedup == InitDedup /\ [][NextDedup]_vars

InitTransfers == InitWith({TransferFeed}, {<<>>}, {<<>>})

NextTransfers == LoadBatch \/ DetectTransfers \/ MultiBankDetectTransfers

SpecTransfers == InitTransfers /\ [][NextTransfers]_vars

InitCandidates == InitWith({CandidateFeed}, {<<>>}, {<<>>})

SpecCandidates == InitCandidates /\ [][NextTransfers]_vars

InitDetectors == InitWith({SubscriptionFeed, DebtFeed}, {<<>>}, {<<>>})

NextDetectors == LoadLedger \/ DetectDuplicateSubscriptions \/ DetectDebtPayments

SpecDetectors == InitDetectors /\ [][NextDetectors]_vars

InitUtilities == InitWith({UtilityFeed}, {<<>>}, {<<>>})

NextUtilities == LoadLedger \/ CategorizeUkUtilities

SpecUtilities == InitUtilities /\ [][NextUtilities]_vars

InitBudget == InitWith({LedgerFeed}, CategoryStores, {<<>>})

NextBudget == LoadLedger \/ CalculateSummary

SpecBudget == InitBudget /\ [][NextBudget]_vars

InitRules == InitWith({RulesFeed}, {<<>>}, RuleStores)

NextRules == LoadLedger \/ ApplyRules

SpecRules == InitRules /\ [][NextRules]_vars

InitMatch == InitWith({MatchFeed}, {<<>>}, MatchStores)

SpecMatch == InitMatch /\ [][NextRules]_vars

-----------------------------------------------------------------------------
(* Claims about deduplicate_transactions *)

\* same account_id, amount and leading description
SameButTime(a, b) ==
    /\ a.account_id = b.account_id
    /\ a.amount = b.amount
    /\ Take(a.description, 50) = Take(b.description, 50)

\* agree on account_id, timestamp, amount and leading description
Agree(a, b) == SameButTime(a, b) /\ a.posted_at = b.posted_at

Apart(a, b) == Abs(a.posted_at - b.posted_at)

Deduplicated == lastOp = "deduplicate"

\* the call set the flag of the i-th transaction
NewlyMarked(i) == txs[i].is_duplicate /\ ~prevTxs[i].is_duplicate

\* a transaction agreeing with the i-th, timestamp included, came before it
SeenExact(i) ==
    \/ \E f \in prevDelivered : Agree(f, txs[i])
    \/ \E j \in 1..(i - 1) : Agree(txs[j], txs[i])

\* the call worked on unflagged objects against an empty seen-map
FreshCall ==
    /\ Deduplicated
    /\ prevHashes = <<>>
    /\ \A i \in Indices(prevTxs) : ~prevTxs[i].is_duplicate

\* C2 as stated: of two transactions with the same account, amount and leading
\* description 71 hours apart the second is marked duplicate, and 73 hours
\* apart neither is.
C2_WindowAsStated ==
    FreshCall =>
        \A i, j \in Indices(txs) :
            (i < j /\ SameButTime(txs[i], txs[j])) =>
                /\ Apart(txs[i], txs[j]) = Hours(71) => txs[j].is_duplicate
                /\ Apart(txs[i], txs[j]) = Hours(73) =>
                        ~txs[i].is_duplicate /\ ~txs[j].is_duplicate

\* C2, amended: two transactions with the same account, amount and leading
\* description whose timestamps are 71 hours apart are not duplicates of each
\* other, exactly as at 73 hours apart: neither is marked unless a transaction
\* carrying its own timestamp was seen before it.
C2_WindowAmended ==
    Deduplicated =>
        \A i, j \in Indices(txs) :
            ( /\ i # j
              /\ SameButTime(txs[i], txs[j])
              /\ Apart(txs[i], txs[j]) \in {Hours(71), Hours(73)}
              /\ ~SeenExact(i) )
            => ~NewlyMarked(i)

C2_Witness ==
    /\ FreshCall
    /\ Len(txs) = 2
    /\ SameButTime(txs[1], txs[2])
    /\ txs[2].posted_at - txs[1].posted_at = Hours(71)
    /\ ~txs[1].is_duplicate /\ ~txs[2].is_duplicate

\* C7: transactions on the same account with the same amount and description
\* but different timestamps are never marked duplicates of each other: a call
\* marks a transaction only if one agreeing with it in the timestamp too was
\* seen before, in this batch or an earlier one.
C7_DifferentTimestampsNotDuplicates ==
    Deduplicated =>
        \A i \in Indices(txs) : NewlyMarked(i) => SeenExact(i)

\* 09:05 arrives before 09:00, after 09:00 had been seen in an earlier batch
C7_Witness ==
    /\ Deduplicated
    /\ \E i \in Indices(txs) :
        /\ txs[i].posted_at = T0 + 5
        /\ ~txs[i].is_duplicate
        /\ ~SeenExact(i)
        /\ \E f \in prevDelivered : SameButTime(f, txs[i]) /\ f.posted_at = T0
        /\ \E j \in Indices(txs) :
               j > i /\ SameButTime(txs[j], txs[i]) /\ txs[j].posted_at = T0

\* C8: against an empty seen-map the first of the transactions that agree on
\* account, timestamp, amount and the first 50 characters of the description
\* keeps its flag (false on a new object), every later one is marked, and the
\* batch comes back whole.
C8_FirstKeptLaterMarked ==
    (Deduplicated /\ prevHashes = <<>>) =>
        /\ Len(txs) = Len(prevTxs)
        /\ \A i \in Indices(txs) :
            /\ txs[i].id = prevTxs[i].id
            /\ Fields(txs[i]) = Fields(prevTxs[i])
            /\ IF \E j \in 1..(i - 1) : Agree(txs[j], txs[i])
               THEN txs[i].is_duplicate
               ELSE txs[i].is_duplicate = prevTxs[i].is_duplicate

\* two descriptions that differ after the 50th character
C8_Witness ==
    /\ FreshCall
    /\ \E i, j \in Indices(txs) :
        /\ i < j
        /\ Agree(txs[i], txs[j])
        /\ txs[i].description # txs[j].description
        /\ ~txs[i].is_duplicate
        /\ txs[j].is_duplicate

\* C9 as stated: two transactions 36 hours apart that went through once
\* unmarked are deduplicated again while both are in the seen-map: exactly one
\* of them is marked.
C9_RedeliveryMarksOne ==
    ( /\ Deduplicated
      /\ Len(txs) = 2
      /\ SameButTime(txs[1], txs[2])
      /\ txs[2].posted_at - txs[1].posted_at = Hours(36)
      /\ \A i \in Indices(txs) :
            /\ ~prevTxs[i].is_duplicate
            /\ Fields(txs[i]) \in prevDelivered
            /\ _transaction_hash(txs[i]) \in DOMAIN prevHashes )
    => Cardinality({i \in Indices(txs) : txs[i].is_duplicate}) = 1

HashHit(i) ==
    \/ _transaction_hash(prevTxs[i]) \in DOMAIN prevHashes
    \/ \E j \in 1..(i - 1) : _transaction_hash(prevTxs[j]) = _transaction_hash(prevTxs[i])

-----------------------------------------------------------------------------
(* Claims about the transfer detectors *)

OppositeSides(a, b) ==
    /\ (a.amount < 0 /\ b.amount > 0) \/ (a.amount > 0 /\ b.amount < 0)
    /\ a.account_id # b.account_id

\* C3: a pair a detector paired as a transfer has both flags set, and in a
\* batch that started unflagged every flagged transaction has a flagged
\* counterpart of opposite sign on another account.
C3_TransferSymmetry ==
    /\ lastOp \in {"detect_transfers", "multibank_detect_transfers"} =>
          \A pr \in pairs : txs[pr[1]].is_transfer /\ txs[pr[2]].is_transfer
    /\ \A i \in Indices(txs) :
          txs[i].is_transfer =>
              \E j \in Indices(txs) :
                  txs[j].is_transfer /\ OppositeSides(txs[i], txs[j])

\* the Multi-Bank detector pairs two transactions posted on different days
C3_Witness ==
    /\ lastOp = "multibank_detect_transfers"
    /\ \E pr \in pairs :
        /\ DateOf(txs[pr[1]].posted_at) # DateOf(txs[pr[2]].posted_at)
        /\ ~prevTxs[pr[1]].is_transfer /\ ~prevTxs[pr[2]].is_transfer
        /\ txs[pr[1]].is_transfer /\ txs[pr[2]].is_transfer

SameBucket(a, b) ==
    /\ DateOf(a.posted_at) = DateOf(b.posted_at)
    /\ _round_amount(Abs(a.amount)) = _round_amount(Abs(b.amount))

\* the place of the i-th transaction among those of its bucket and sign
RankInBucket(ts, i) ==
    Cardinality({j \in 1..i : /\ SameBucket(ts[j], ts[i])
                              /\ (ts[j].amount > 0) = (ts[i].amount > 0)
                              /\ ts[j].amount # 0})

\* the transaction of the other sign with the same place in the same bucket
\* is on another account
KthPartnerElsewhere(ts, i) ==
    \E j \in Indices(ts) :
        /\ SameBucket(ts[j], ts[i])
        /\ (ts[j].amount < 0 /\ ts[i].amount > 0) \/ (ts[j].amount > 0 /\ ts[i].amount < 0)
        /\ RankInBucket(ts, j) = RankInBucket(ts, i)
        /\ ts[j].account_id # ts[i].account_id

\* C6: the single pass flags the k-th positive and the k-th negative of a
\* (date, rounded amount) bucket exactly when their accounts differ and
\* changes nothing else; +100.00 on one account and -100.00 on another on
\* the same date are both flagged.
C6_SinglePassBuckets ==
    lastOp = "detect_transfers" =>
        /\ Len(txs) = Len(prevTxs)
        /\ \A i \in Indices(txs) :
              txs[i] = [prevTxs[i] EXCEPT !.is_transfer =
                            prevTxs[i].is_transfer \/ KthPartnerElsewhere(prevTxs, i)]
        /\ ( /\ Len(txs) = 2
             /\ txs[1].amount = Pounds(100, 0)
             /\ txs[2].amount = 0 - Pounds(100, 0)
             /\ DateOf(txs[1].posted_at) = DateOf(txs[2].posted_at)
             /\ txs[1].account_id # txs[2].account_id )
           => txs[1].is_transfer /\ txs[2].is_transfer

\* the second positive is left alone although a negative of another account
\* is in its bucket: that one is zipped with the first positive
C6_Witness ==
    /\ lastOp = "detect_transfers"
    /\ Len(txs) = 3
    /\ txs[1].amount > 0 /\ txs[2].amount > 0 /\ txs[3].amount < 0
    /\ SameBucket(txs[1], txs[3]) /\ SameBucket(txs[2], txs[3])
    /\ txs[1].account_id # txs[2].account_id
    /\ txs[2].account_id = txs[3].account_id
    /\ txs[3].amount # 0 - txs[1].amount
    /\ txs[1].is_transfer /\ ~txs[2].is_transfer /\ txs[3].is_transfer

-----------------------------------------------------------------------------
(* Claims about calculate_summary *)

Summarized == lastOp = "calculate_summary"

Flagged(tx) == tx.is_transfer \/ tx.is_duplicate

SpentFigures(sm) ==
    <<sm.totals.spent, [k \in Indices(sm.categories) |-> sm.categories[k].spent]>>

FlipAmounts == {0 - Pounds(45, 500), 0 - Pounds(10, 0), Pounds(100, 0)}
FlipCategories == {NULL, "groceries", "utilities", "transport"}

\* C1: a transaction flagged transfer or duplicate contributes to no spent
\* figure: whatever amount and category it is given, the per-category spent
\* values and totals.spent stay what they are.
C1_FlaggedNeverSpent ==
    Summarized =>
        \A i \in Indices(txs) :
            Flagged(txs[i]) =>
                \A a \in FlipAmounts, c \in FlipCategories :
                    SpentFigures(calculate_summary(
                        [txs EXCEPT ![i].amount = a, ![i].category = c],
                        categories, last_period, now)) = SpentFigures(summary)

\* a flagged outflow of a configured category, inside the period, beside
\* spending that does count
C1_Witness ==
    /\ Summarized
    /\ summary.totals.spent > 0
    /\ Len(summary.categories) > 0
    /\ \E i \in Indices(txs) :
        /\ txs[i].is_duplicate
        /\ txs[i].amount < 0
        /\ \E k \in Indices(categories) : categories[k].key = txs[i].category
        /\ last_period # NoPeriod
        /\ <<YearOf(txs[i].posted_at), MonthOf(txs[i].posted_at)>> = last_period

\* the transactions the coverage is about
Filtered ==
    {i \in Indices(txs) :
        /\ ~txs[i].is_transfer
        /\ ~txs[i].is_duplicate
        /\ last_period # NoPeriod =>
              <<YearOf(txs[i].posted_at), MonthOf(txs[i].posted_at)>> = last_period}

\* C4: coverage_pct is the share of the filtered transactions that have a
\* category, so it lies between 0 and 1, and it is 0 when nothing is left
\* after filtering.
C4_CoverageBound ==
    Summarized =>
        LET n   == Cardinality(Filtered)
            k   == Cardinality({i \in Filtered : txs[i].category # NULL})
            cov == summary.coverage_pct
        IN  /\ cov.den > 0
            /\ n > 0 => /\ cov.num * n = k * cov.den
                        /\ 0 <= cov.num /\ cov.num <= cov.den
            /\ n = 0 => cov.num = 0

\* a flagged, categorized transaction beside a filtered one without category
C4_Witness ==
    /\ Summarized
    /\ Cardinality(Filtered) = 2
    /\ summary.coverage_pct = [num |-> 1, den |-> 2]
    /\ \E i \in Indices(txs) : Flagged(txs[i]) /\ txs[i].category # NULL

-----------------------------------------------------------------------------
(* Claims about apply_rules *)

RulesApplied == lastOp = "apply_rules"

\* C5: categorization is idempotent: after apply_rules has run, running it
\* again with the same rules leaves every transaction's category and
\* category_confidence as the first run set them.
C5_CategorizationIdempotent ==
    RulesApplied => apply_rules(txs, rules) = txs

\* the run categorized one transaction by a rule and one by a keyword, gave
\* one no category, and changed what it found
C5_Witness ==
    /\ RulesApplied
    /\ txs # prevTxs
    /\ \E i \in Indices(txs) :
            /\ Truthy(_apply_user_rules(txs[i], rules))
            /\ txs[i].category = _apply_user_rules(txs[i], rules)
    /\ \E i \in Indices(txs) :
            /\ ~Truthy(_apply_user_rules(txs[i], rules))
            /\ txs[i].category = _categorize_heuristic(txs[i])
            /\ txs[i].category = "transport"
            /\ prevTxs[i].category = "groceries"
    /\ \E i \in Indices(txs) :
            /\ ~Flagged(txs[i])
            /\ txs[i].category = NULL
            /\ txs[i].category_confidence = "low"

\* C22: apply_rules leaves category and category_confidence of every
\* transaction flagged is_transfer or is_duplicate exactly as they were
\* before the call.
C22_FlaggedSkipped ==
    RulesApplied =>
        /\ Len(txs) = Len(prevTxs)
        /\ \A i \in Indices(prevTxs) :
              (prevTxs[i].is_transfer \/ prevTxs[i].is_duplicate) =>
                  /\ txs[i].category = prevTxs[i].category
                  /\ txs[i].category_confidence = prevTxs[i].category_confidence

\* the run met a transfer without a category and a duplicate with one, both
\* of which the keywords would have categorized otherwise, kept both, and
\* categorized a third transaction
C22_Witness ==
    /\ RulesApplied
    /\ \E i, j, k \in Indices(txs) :
        /\ prevTxs[i].is_transfer /\ ~prevTxs[i].is_duplicate
        /\ prevTxs[i].category = NULL /\ txs[i].category = NULL
        /\ Categorize(prevTxs[i], rules).category = "transport"
        /\ prevTxs[j].is_duplicate /\ ~prevTxs[j].is_transfer
        /\ prevTxs[j].category = "groceries" /\ txs[j].category = "groceries"
        /\ Categorize(prevTxs[j], rules).category # "groceries"
        /\ ~Flagged(prevTxs[k])
        /\ txs[k].category # prevTxs[k].category

-----------------------------------------------------------------------------
(* Claims about _rule_matches *)

AmountKeys == {"amount_min", "amount_max"}

\* the magnitude of the amount lies in the range the matchers give
MagnitudeInRange(tx, matchers) ==
    /\ Has(matchers, "amount_min") => Abs(tx.amount) >= matchers.amount_min
    /\ Has(matchers, "amount_max") => Abs(tx.amount) <= matchers.amount_max

\* C11: a rule that has only amount matchers accepts a transaction exactly
\* when its amount lies within [amount_min, amount_max]; an outflow of
\* -25.50 is accepted by the range 20..30 and rejected by amount_min = 50.
C11_AmountRangeAsStated ==
    RulesApplied =>
        \A i \in Indices(txs), k \in Indices(rules) :
            LET tx == txs[i]
                matchers == rules[k].matchers
            IN  /\ (DOMAIN matchers \subseteq AmountKeys /\ tx.amount < 0) =>
                      (_rule_matches(tx, matchers) <=> MagnitudeInRange(tx, matchers))
                /\ tx.amount = 0 - Pounds(25, 500) =>
                      /\ matchers = [amount_min |-> Pounds(20, 0),
                                     amount_max |-> Pounds(30, 0)]
                            => _rule_matches(tx, matchers)
                      /\ matchers = [amount_min |-> Pounds(50, 0)]
                            => ~_rule_matches(tx, matchers)

-----------------------------------------------------------------------------
(* Claims about the order of rules and the keyword fallback *)

\* every matcher the rule has is satisfied by the transaction
PresentMatchersSatisfied(tx, matchers) ==
    /\ Has(matchers, "merchant") =>
          /\ tx.merchant # <<>>
          /\ Contains(lower(matchers.merchant), lower(tx.merchant))
    /\ Has(matchers, "description_contains") =>
          Contains(lower(matchers.description_contains), lower(tx.description))
    /\ Has(matchers, "amount_min") => tx.amount >= matchers.amount_min
    /\ Has(matchers, "amount_max") => tx.amount <= matchers.amount_max

\* the rules of the store the transaction satisfies
SatisfiedRules(tx) ==
    {k \in Indices(rules) : PresentMatchersSatisfied(tx, rules[k].matchers)}

FirstOf(S) == CHOOSE k \in S : \A m \in S : k <= m

-----------------------------------------------------------------------------
(* Claims about the figures of a summary *)

RECURSIVE Magnitudes(_)
\* the summed magnitude of the amounts of the transactions with index in S
Magnitudes(S) ==
    IF S = {} THEN 0
    ELSE LET i == CHOOSE x \in S : TRUE
         IN  Abs(txs[i].amount) + Magnitudes(S \ {i})

\* the filtered outflows of a category
OutflowsOf(key) == {i \in Filtered : txs[i].category = key /\ txs[i].amount < 0}

\* C13: each configured category is reported with spent = the summed
\* magnitude of the filtered outflows of its key (0 without any) and
\* remaining = target - spent, negative when overspent; target 140.00 with
\* 45.50 spent leaves 94.50.
C13_SpentAndRemaining ==
    Summarized =>
        /\ Len(summary.categories) = Len(categories)
        /\ \A k \in Indices(categories) :
            LET row == summary.categories[k]
            IN  /\ row.key = categories[k].key
                /\ row.target = categories[k].target
                /\ row.spent = Magnitudes(OutflowsOf(categories[k].key))
                /\ row.remaining = row.target - row.spent
                /\ (row.target = Pounds(140, 0) /\ row.spent = Pounds(45, 500))
                      => row.remaining = Pounds(94, 500)

\* one category overspent, another with 45.50 of 140.00 spent
C13_Witness ==
    /\ Summarized
    /\ \E k \in Indices(categories) : summary.categories[k].remaining < 0
    /\ \E k \in Indices(categories) :
        /\ summary.categories[k].target = Pounds(140, 0)
        /\ summary.categories[k].spent = Pounds(45, 500)
        /\ summary.categories[k].remaining = Pounds(94, 500)

RECURSIVE ListedSpent(_)
\* the sum of the spent values of the first n categories the summary lists
ListedSpent(n) ==
    IF n = 0 THEN 0 ELSE summary.categories[n].spent + ListedSpent(n - 1)

ConfiguredKeys == {categories[k].key : k \in Indices(categories)}

\* the filtered outflows that have a category
CategorizedOutflows == {i \in Filtered : txs[i].category # NULL /\ txs[i].amount < 0}

-----------------------------------------------------------------------------
(* Claims about the Multi-Bank candidate test *)

MultiBankRan == lastOp = "multibank_detect_transfers"

\* the detector paired the i-th and the j-th transaction
Paired(i, j) == <<i, j>> \in pairs \/ <<j, i>> \in pairs

\* the test as the claim words it
StatedCandidate(a, b) ==
    /\ (a.amount < 0 /\ b.amount > 0) \/ (a.amount > 0 /\ b.amount < 0)
    /\ Abs(Abs(a.amount) - Abs(b.amount)) <= AmountTolerance
    /\ Abs(a.posted_at - b.posted_at) <= Days(MaxTransferDays)
    /\ ~_contains_merchant_name(a.description)
    /\ ~_contains_merchant_name(b.description)

\* C15: two transactions of different accounts are flagged as a transfer
\* exactly when their amounts have opposite signs, their magnitudes differ
\* by at most 0.01, their posting times differ by at most 3 days and
\* neither description has merchant-payment phrasing.
C15_CandidateAsStated ==
    MultiBankRan =>
        \A i, j \in Indices(txs) :
            prevTxs[i].account_id # prevTxs[j].account_id =>
                (Paired(i, j) <=> StatedCandidate(prevTxs[i], prevTxs[j]))

\* C27 as stated: for every two transactions a and b,
\* _is_transfer_candidate(a, b) = _is_transfer_candidate(b, a) and
\* _is_duplicate_candidate(a, b) = _is_duplicate_candidate(b, a), also when
\* their posting times differ by a non-whole number of days.
C27_SymmetricAsStated ==
    \A i, j \in Indices(txs) :
        /\ _is_transfer_candidate(txs[i], txs[j]) = _is_transfer_candidate(txs[j], txs[i])
        /\ _is_duplicate_candidate(txs[i], txs[j]) = _is_duplicate_candidate(txs[j], txs[i])

\* the transactions the last call of the detector flagged
FlaggedByCall == {i \in Indices(txs) : \E pr \in pairs : pr[1] = i \/ pr[2] = i}

\* the call returned what it detected (storing the records did not raise)
Stored == pairs = {} \/ detected # <<>>

\* C28 as stated: after a Multi-Bank detect_transfers call that returned
\* its records, no transaction takes part in two of them, the number of
\* records is exactly half the number of transactions the call flagged, and
\* it is at most half the size of the batch.
C28_OneCounterpartAsStated ==
    (MultiBankRan /\ Stored) =>
        /\ \A i \in Indices(txs) :
              Cardinality({pr \in pairs : pr[1] = i \/ pr[2] = i}) <= 1
        /\ 2 * Len(detected) = Cardinality(FlaggedByCall)
        /\ 2 * Len(detected) <= Len(txs)

\* C29 as stated: when a Multi-Bank detect_transfers call returns an empty
\* list (transfers_detected = 0), the call changed the is_transfer flag of
\* no transaction.
C29_AllOrNothingAsStated ==
    (MultiBankRan /\ detected = <<>>) =>
        \A i \in Indices(txs) : txs[i].is_transfer = prevTxs[i].is_transfer

-----------------------------------------------------------------------------
(* Claims about the duplicate-subscription test *)

SubscriptionsScanned == lastOp = "detect_duplicate_subscriptions"

\* the conditions the claim gives for a pair
StatedDuplicate(a, b) ==
    /\ ~a.is_transfer /\ ~b.is_transfer
    /\ a.account_id # b.account_id
    /\ a.merchant # <<>> /\ b.merchant # <<>>
    /\ _normalize_merchant_name(a.merchant) = _normalize_merchant_name(b.merchant)
    /\ 20 * Abs(a.amount - b.amount) <= Abs(a.amount) + Abs(b.amount)
    /\ Abs(a.posted_at - b.posted_at) <= Days(MaxDuplicateDays)

\* C16: two non-transfer transactions of different accounts whose merchants
\* fall in the same normalized-merchant group are emitted as a candidate
\* when their amounts differ by at most 10% of the average and their dates
\* by at most 7 days.
C16_DuplicateAsStated ==
    SubscriptionsScanned =>
        \A i, j \in Indices(txs) :
            StatedDuplicate(txs[i], txs[j]) => Paired(i, j)

-----------------------------------------------------------------------------
(* Claims about what the candidate detectors leave alone *)

DebtsScanned == lastOp = "detect_debt_payments"

\* C17: detect_duplicate_subscriptions and detect_debt_payments leave
\* is_duplicate, is_transfer and category of every transaction as they
\* were, and every duplicate record emitted carries user_confirmed = false
\* and is_duplicate = false.
C17_NeverAutoExclude ==
    (SubscriptionsScanned \/ DebtsScanned) =>
        /\ Len(txs) = Len(prevTxs)
        /\ \A i \in Indices(txs) :
              /\ txs[i].is_duplicate = prevTxs[i].is_duplicate
              /\ txs[i].is_transfer = prevTxs[i].is_transfer
              /\ txs[i].category = prevTxs[i].category
        /\ SubscriptionsScanned =>
              \A n \in Indices(detected) :
                  ~detected[n].user_confirmed /\ ~detected[n].is_duplicate

\* a candidate pair was emitted and both its transactions are still
\* unflagged
C17_Witness ==
    /\ SubscriptionsScanned
    /\ detected # <<>>
    /\ \E pr \in pairs :
        /\ ~txs[pr[1]].is_duplicate /\ ~txs[pr[2]].is_duplicate
        /\ ~txs[pr[1]].is_transfer /\ ~txs[pr[2]].is_transfer
        /\ detected[1].tx1_hash = _create_transaction_hash(txs[pr[1]])

-----------------------------------------------------------------------------
(* Claims about detect_debt_payments *)

\* some text of at least one character stands between before and after
\* somewhere in s
Encloses(before, after, s) ==
    \E k \in 1..(Len(s) + 1), q \in 1..(Len(s) + 1) :
        /\ k + Len(before) - 1 <= Len(s)
        /\ q + Len(after) - 1 <= Len(s)
        /\ SubSeq(s, k, k + Len(before) - 1) = before
        /\ SubSeq(s, q, q + Len(after) - 1) = after
        /\ q > k + Len(before)

\* the description, in upper case, matches one of the debt patterns
MentionsDebt(tx) ==
    \E k \in Indices(debt_patterns) :
        Encloses(debt_patterns[k][1], debt_patterns[k][2], upper(tx.description))

StatedDebtType(tx) ==
    IF Contains(Loan, upper(tx.description)) \/ Contains(Mortgage, upper(tx.description))
    THEN "loan" ELSE "credit_card"

PaymentToVisaCard == <<"P","A","Y","M","E","N","T"," ","T","O"," ","V","I","S","A"," ","C","A","R","D">>
Visa == <<"V","I","S","A">>

\* C19: every debt payment record comes from exactly one transaction, which
\* is outgoing (amount < 0) and whose description matches a debt pattern;
\* no transaction yields more than one record; the record's debt_type is
\* loan when the description mentions LOAN or MORTGAGE and credit_card
\* otherwise; and a -200 transaction described PAYMENT TO VISA CARD yields
\* a record with account name VISA and debt_type credit_card.
C19_DebtPayments ==
    DebtsScanned =>
        /\ \A n \in Indices(detected) :
              Cardinality({pr \in pairs : pr[2] = n}) = 1
        /\ \A i \in Indices(txs) :
              Cardinality({pr \in pairs : pr[1] = i}) <= 1
        /\ \A pr \in pairs :
              /\ txs[pr[1]].amount < 0
              /\ MentionsDebt(txs[pr[1]])
              /\ detected[pr[2]].debt_type = StatedDebtType(txs[pr[1]])
        /\ \A i \in Indices(txs) :
              (txs[i].amount = 0 - Pounds(200, 0)
               /\ txs[i].description = PaymentToVisaCard) =>
                  \E pr \in pairs :
                      /\ pr[1] = i
                      /\ detected[pr[2]].account_name = Visa
                      /\ detected[pr[2]].debt_type = "credit_card"

\* the scan met the card payment of the example going out and coming in,
\* and a payment that two patterns match, and emitted one record for the
\* first and the last: VISA as a credit card, and a loan
C19_Witness ==
    /\ DebtsScanned
    /\ \E i, j, k \in Indices(txs) :
        /\ txs[i].description = PaymentToVisaCard /\ txs[i].amount = 0 - Pounds(200, 0)
        /\ txs[j].description = PaymentToVisaCard /\ txs[j].amount > 0
        /\ Encloses(debt_patterns[1][1], debt_patterns[1][2], upper(txs[k].description))
        /\ Encloses(debt_patterns[3][1], debt_patterns[3][2], upper(txs[k].description))
        /\ txs[k].amount < 0
        /\ Len(detected) = 2
        /\ \E a, b \in pairs :
            /\ a[1] = i /\ detected[a[2]].debt_type = "credit_card"
            /\ detected[a[2]].account_name = Visa
            /\ b[1] = k /\ detected[b[2]].debt_type = "loan"

-----------------------------------------------------------------------------
(* Claims about categorize_uk_utilities *)

UtilitiesAsked == lastOp = "categorize_uk_utilities"

\* the transaction the function was called with
Asked == txs[(CHOOSE pr \in pairs : TRUE)[1]]

\* the table positions whose pattern matches the transaction text
MatchingSlots == {s \in TableSlots : Matches(PatternAt(s), text_to_match(Asked))}

SpecificSlots == {s \in MatchingSlots : Len(PatternAt(s)) > SpecificLength}

FirstSlot(S) == CHOOSE s \in S : \A t \in S : s = t \/ SlotBefore(s, t)

Answer(slot) ==
    <<[best_match |-> UK_UTILITY_PATTERNS[slot[1]].category,
       best_confidence |-> IF Len(PatternAt(slot)) > SpecificLength THEN 9 ELSE 7]>>

\* C18 as stated: the answer is the category of the first pattern in table
\* order that matches, with confidence 0.9 if that pattern is long and 0.7
\* otherwise, and nothing when no pattern matches.
C18_FirstMatchAsStated ==
    UtilitiesAsked =>
        LET matching == MatchingSlots
        IN  detected = IF matching = {} THEN <<>> ELSE Answer(FirstSlot(matching))

\* C18 amended: the answer is the category of the first matching pattern
\* that is long (confidence 0.9) when a long pattern matches, else that of
\* the first matching pattern (confidence 0.7), and nothing when no pattern
\* matches.
C18_BestMatchAmended ==
    UtilitiesAsked =>
        LET matching == MatchingSlots
            specific == {s \in matching : Len(PatternAt(s)) > SpecificLength}
        IN  detected = IF matching = {} THEN <<>>
                       ELSE IF specific # {} THEN Answer(FirstSlot(specific))
                       ELSE Answer(FirstSlot(matching))

\* a short pattern of one category matches before a long one of another,
\* and the long one is answered
C18_Witness ==
    /\ UtilitiesAsked
    /\ SpecificSlots # {}
    /\ FirstSlot(MatchingSlots)[1] # FirstSlot(SpecificSlots)[1]
    /\ detected = Answer(FirstSlot(SpecificSlots))
    /\ detected[1].best_match = "rent"

-----------------------------------------------------------------------------
(* Specification of normalize_batch *)

InitNormalize == InitWith({RawFeed}, {<<>>}, {<<>>})

NextNormalize == NormalizeBatch \/ Tick

SpecNormalize == InitNormalize /\ [][NextNormalize]_vars

-----------------------------------------------------------------------------
(* Claims about normalize_batch *)

BatchNormalized == lastOp \in {"normalize_batch", "normalize_batch_raised"}

\* the records of the batch handed in whose normalization succeeds
Remaining == SelectSeq(prevTxs, LAMBDA tx : normalize_transaction(tx).ok)

\* C20 as stated: normalize_batch returns, whatever the batch, and the list
\* it returns holds the normalized form of every record of the batch whose
\* normalization succeeds, in order; a record that fails removes only
\* itself.
C20_FailureIsolatedAsStated ==
    BatchNormalized =>
        /\ lastOp = "normalize_batch"
        /\ Len(txs) = Len(Remaining)
        /\ \A i \in Indices(txs) : txs[i].id = Remaining[i].transaction_id

-----------------------------------------------------------------------------
(* Specification of the processor shared by the users *)

InitUsers == InitWith({JointFeed}, {<<>>}, {<<>>})

NextUsers == DeduplicateForUser \/ Tick

SpecUsers == InitUsers /\ [][NextUsers]_vars

-----------------------------------------------------------------------------
(* Claims about the users of the processor *)

DuplicateFlags(ts) == [i \in Indices(ts) |-> ts[i].is_duplicate]

\* C21 as stated: the is_duplicate flags of a user's batch are those the
\* batch gets from a recent-hash map that only this user's batches went
\* through, whatever other users had processed before.
C21_PartitionedAsStated ==
    lastOp = "deduplicate_for_user" => DuplicateFlags(txs) = DuplicateFlags(alone)

-----------------------------------------------------------------------------
(* Specification of concurrent budget_refresh requests *)

InitRefresh == InitWith({RawFeed}, {<<>>}, {<<>>})

NextRefresh == Arrive \/ Abandon \/ Refresh

SpecRefresh == InitRefresh /\ [][NextRefresh]_vars

-----------------------------------------------------------------------------
(* Claims about the lock of budget_refresh *)

\* the requests of user u between entering and leaving the lock
InFlight(u) == {r \in Requests : user_id(r) = u /\ pc[r] = "fetching"}

\* C23: at any moment at most one budget_refresh request of a user is
\* between entering and leaving the lock; a request that starts while
\* another of the same user is there is answered 409 and leaves
\* recent_hashes and TRANSACTION_CACHE as they were, and a request that
\* starts while none of the same user is there enters, whatever the
\* requests of other users do.
C23_OneRefreshPerUser ==
    /\ [](\A u \in Users : Cardinality(InFlight(u)) <= 1)
    /\ [][\A r \in Requests :
            (pc[r] = "idle" /\ pc'[r] # "idle") =>
                IF InFlight(user_id(r)) # {}
                THEN /\ pc'[r] = "rejected"
                     /\ UNCHANGED <<recent_hashes, TRANSACTION_CACHE>>
                ELSE pc'[r] = "fetching"]_vars

\* refreshes of the two users overlap and a second request of one of them
\* has just been answered 409
C23_Witness ==
    /\ \A u \in Users : InFlight(u) # {}
    /\ \E r \in Requests : pc[r] = "rejected"
    /\ lastOp = "refresh_rejected"

-----------------------------------------------------------------------------
(* Specification of the fetch of a refresh *)

InitFetch == InitWith({RawFeed}, {<<>>}, {<<>>})

NextFetch == BeginFetch \/ Attempt

SpecFetch == InitFetch /\ [][NextFetch]_vars

-----------------------------------------------------------------------------
(* Claims about fetch_transactions_with_retry *)

HttpStatusError(response) == response.status >= 400

ScaExceeded(response) == response.status = 403 /\ response.error = "sca_exceeded"

\* C24 as stated: a call makes at most 3 attempts; every attempt but the
\* last was answered by an HTTP status error other than 403 sca_exceeded;
\* and a call whose attempt is answered 403 sca_exceeded ends there, as its
\* first attempt, with ReauthRequired.
C24_RetryAsStated ==
    \A k \in Indices(calls) :
        LET rs == calls[k].responses
        IN  /\ Len(rs) <= StopAfterAttempt
            /\ \A n \in Indices(rs) :
                  (n < Len(rs) \/ calls[k].ended = "running") =>
                      HttpStatusError(rs[n]) /\ ~ScaExceeded(rs[n])
            /\ \A n \in Indices(rs) :
                  ScaExceeded(rs[n]) => n = 1 /\ calls[k].ended = "ReauthRequired"

-----------------------------------------------------------------------------
(* Specification of repeated refreshes *)

InitRepeat == InitWith({RawFeed}, {<<Groceries>>}, {<<>>})

NextRepeat == RefreshAndSummarize \/ Tick

SpecRepeat == InitRepeat /\ [][NextRepeat]_vars

-----------------------------------------------------------------------------
(* Claims about repeated refreshes *)

\* the last two steps ran the pipeline on the same raw batch
RanTwice ==
    /\ lastOp = "refresh_and_summary"
    /\ earlier.ran
    /\ earlier.raw = prevTxs

Figures(s) == [totals |-> s.totals, categories |-> s.categories,
               coverage_pct |-> s.coverage_pct]

-----------------------------------------------------------------------------
(* Specification of the operations on the same transaction objects *)

InitObjects == InitWith({ObjectFeed}, {<<Groceries>>}, {<<>>})

NextObjects ==
    \/ LoadLedger
    \/ Deduplicate
    \/ DetectTransfers
    \/ ApplyRules
    \/ ProcessTransactions
    \/ CalculateSummary

SpecObjects == InitObjects /\ [][NextObjects]_vars

-----------------------------------------------------------------------------
(* Claims about the flags of the transaction objects *)

OnTheObjects ==
    lastOp \in {"deduplicate", "detect_transfers", "apply_rules",
                "process_transactions", "calculate_summary"}

\* C30: deduplicate_transactions, detect_transfers, apply_rules,
\* process_transactions and calculate_summary each leave the batch with the
\* same objects, every is_duplicate and is_transfer flag that was true still
\* true; and calculate_summary leaves every field of every transaction as
\* it was.
C30_FlagsMonotone ==
    OnTheObjects =>
        /\ Len(txs) = Len(prevTxs)
        /\ \A i \in Indices(txs) :
              /\ txs[i].id = prevTxs[i].id
              /\ prevTxs[i].is_duplicate => txs[i].is_duplicate
              /\ prevTxs[i].is_transfer => txs[i].is_transfer
        /\ lastOp = "calculate_summary" => txs = prevTxs

\* deduplicate_transactions met a transaction flagged duplicate whose hash
\* was not in the seen-map and another flagged transfer by an earlier
\* detector, and left both flags
C30_Witness ==
    /\ lastOp = "deduplicate"
    /\ \E i, j \in Indices(txs) :
        /\ prevTxs[i].is_duplicate
        /\ ~HashHit(i)
        /\ txs[i].is_duplicate
        /\ prevTxs[j].is_transfer
        /\ txs[j].is_transfer
        /\ Truthy(txs[j].category)

====
